----------------------------- MODULE Toolchain -----------------------------
(***************************************************************************)
(* The two scripts of embedded/cross_toolchain: prepare.sh downloads the   *)
(* packages, build-toolchain.sh unpacks, builds and installs them in an    *)
(* order in which each finds what it needs.  Both are run by `bash -e': a  *)
(* command that fails ends the script, and it is up to the user to run it  *)
(* again over what it left behind.  The programs they call are modelled by *)
(* what the scripts rely on: axel and wget leave a part of the file when   *)
(* they fail, axel resumes a part it is asked for again, and tar fails on  *)
(* a part of an archive, having unpacked what there is.                    *)
(***************************************************************************)
EXTENDS Naturals, SequencesExt

CONSTANTS MaxFaults   \* bound: lost connections, interrupts and failing compilers

ASSUME ToolchainAssumption == MaxFaults \in Nat

\* In the order of prepare.sh.  GLIBC_VERSION is not set: its `if' never holds.
PACKAGES == <<"bc", "kernel", "file", "ncurses", "m4", "gmp", "mpfr", "mpc",
              "cloog", "isl", "binutils", "gcc", "uclibc">>
Packages == ToSet(PACKAGES)

\* In the order of build-toolchain.sh, CLooG before the isl it is built with.
BUILDS_slip == <<"file", "bc", "headers", "m4", "ncurses", "gmp", "mpfr", "mpc", "cloog",
                 "isl", "binutils", "gcc_static", "uclibc", "gcc_final">>

BUILDS == <<"file", "bc", "headers", "m4", "ncurses", "gmp", "mpfr", "mpc", "isl",
            "cloog", "binutils", "gcc_static", "uclibc", "gcc_final">>
Builds == ToSet(BUILDS)

Archive(b) == CASE b = "headers"                      -> "kernel"
                [] b \in {"gcc_static", "gcc_final"} -> "gcc"
                [] OTHER                              -> b

\* What the configure of each is given by --with..., the headers and the C
\* library that the last ones take from SYSROOT, and the tools in PREFIX.
Needs(b) == CASE b \in {"mpfr", "isl"} -> {"gmp"}
              [] b = "mpc"        -> {"gmp", "mpfr"}
              [] b = "cloog"      -> {"gmp", "isl"}
              [] b = "binutils"   -> {"gmp", "mpfr", "mpc", "isl", "cloog"}
              [] b = "gcc_static" -> {"gmp", "mpfr", "mpc", "isl", "cloog", "binutils"}
              [] b = "uclibc"     -> {"gcc_static", "binutils", "headers"}
              [] b = "gcc_final"  -> {"gmp", "mpfr", "mpc", "isl", "cloog", "binutils", "headers", "uclibc"}
              [] OTHER            -> {}

\* What the build of uClibc takes besides (build-toolchain.sh:198-199): the files
\* lie beside the scripts, which do not copy them to where they are looked for.
Extras == {"uClibc_sysinfo.patch", "uClibc_config"}

VARIABLES script,     \* which runs: "none", "prepare" or "build"
          at,         \* where it is, in PACKAGES or in BUILDS
          second,     \* prepare.sh is at the second command of a package
          tarball,    \* each under its final name: "none", "part" or "whole"
          download,   \* gmp under the name it has on the server
          tree,       \* the kernel's, unpacked by prepare.sh
          copied,     \* the Extras that the user has put among the packages
          installed,  \* in PREFIX, SYSROOT or TMP_INSTALL
          prepared,   \* prepare.sh has come to its end, and
          built,      \* build-toolchain.sh to its own
          faults

vars == <<script, at, second, tarball, download, tree, copied, installed,
          prepared, built, faults>>

Init == /\ script = "none" /\ at = 1 /\ second = FALSE
        /\ tarball = [q \in Packages |-> "none"] /\ download = "none" /\ tree = "none"
        /\ copied = {} /\ installed = {} /\ prepared = FALSE /\ built = FALSE
        /\ faults = 0

fault == faults < MaxFaults /\ faults' = faults + 1

\* A command has failed.  The second form is that of a script without `-e'.
exit_slip(n) == IF at < n THEN at' = at + 1 /\ second' = FALSE /\ UNCHANGED <<script, prepared, built>>
                ELSE /\ script' = "none" /\ at' = 1 /\ second' = FALSE
                     /\ prepared' = (prepared \/ script = "prepare")
                     /\ built' = (built \/ script = "build")

exit(n) == script' = "none" /\ at' = 1 /\ second' = FALSE /\ UNCHANGED <<prepared, built>>

-----------------------------------------------------------------------------
(* prepare.sh                                                              *)

start_prepare ==
  /\ script = "none" /\ script' = "prepare"
  /\ UNCHANGED <<at, second, tarball, download, tree, copied, installed, prepared, built, faults>>

p == PACKAGES[at]

next_package ==
  /\ second' = FALSE
  /\ IF at < Len(PACKAGES) THEN at' = at + 1 /\ UNCHANGED <<script, prepared>>
     ELSE at' = 1 /\ script' = "none" /\ prepared' = TRUE

\* The kernel has a second `if', and gmp its mv if it was downloaded.
after_fetch(fetched) == IF p = "kernel" \/ (p = "gmp" /\ fetched)
                        THEN second' = TRUE /\ UNCHANGED <<script, at, prepared>>
                        ELSE next_package

\* The test looks for a file of that name, whatever is in it.
present == /\ script = "prepare" /\ ~second
           /\ tarball[p] # "none"
           /\ after_fetch(FALSE)
           /\ UNCHANGED <<tarball, download, tree, copied, installed, built, faults>>

fetches(state) == IF p = "gmp"
                  THEN download' = state /\ UNCHANGED tarball
                  ELSE tarball' = [tarball EXCEPT ![p] = state] /\ UNCHANGED download

fetch == /\ script = "prepare" /\ ~second
         /\ tarball[p] = "none"
         /\ fetches("whole")
         /\ after_fetch(TRUE)
         /\ UNCHANGED <<tree, copied, installed, built, faults>>

\* A whole gmp that an earlier run did not come to rename stays whole.
fetch_fails == /\ script = "prepare" /\ ~second
               /\ tarball[p] = "none" /\ fault
               /\ \E state \in {"none", "part"} :
                    fetches(IF p = "gmp" /\ download # "none" THEN download ELSE state)
               /\ exit(Len(PACKAGES))
               /\ UNCHANGED <<tree, copied, installed>>

rename == /\ script = "prepare" /\ second /\ p = "gmp"
          /\ tarball' = [tarball EXCEPT !["gmp"] = download] /\ download' = "none"
          /\ next_package
          /\ UNCHANGED <<tree, copied, installed, built, faults>>

\* The tree is unpacked whether it is there or not.
must_unpack_slip == TRUE
must_unpack      == tree = "none"

unpack == /\ script = "prepare" /\ second /\ p = "kernel"
          /\ must_unpack => tarball["kernel"] = "whole"
          /\ tree' = IF must_unpack THEN "whole" ELSE tree
          /\ next_package
          /\ UNCHANGED <<tarball, download, copied, installed, built, faults>>

\* tar comes to the end of a part of an archive.
unpack_fails == /\ script = "prepare" /\ second /\ p = "kernel"
                /\ must_unpack /\ tarball["kernel"] = "part"
                /\ tree' \in {"none", "part"}
                /\ exit(Len(PACKAGES))
                /\ UNCHANGED <<tarball, download, copied, installed, faults>>

\* The user interrupts the script at its second command of a package.
prepare_interrupted == /\ script = "prepare" /\ second /\ fault
                       /\ tree' \in {tree} \cup IF p = "kernel" /\ must_unpack THEN {"part"} ELSE {}
                       /\ script' = "none" /\ at' = 1 /\ second' = FALSE
                       /\ UNCHANGED <<tarball, download, copied, installed, prepared, built>>

\* Nothing in the scripts removes what a failed run left: the user does.
clean(q) == /\ script = "none"
            /\ tarball[q] = "part" \/ (q = "kernel" /\ tree = "part")
            /\ tarball' = [tarball EXCEPT ![q] = IF @ = "part" THEN "none" ELSE @]
            /\ tree' = IF q = "kernel" THEN "none" ELSE tree
            /\ prepared' = FALSE
            /\ UNCHANGED <<script, at, second, download, copied, installed, built, faults>>

\* Nor does anything but the user copy the files that lie beside the scripts.
copy(f) == /\ copied' = copied \cup {f}
           /\ UNCHANGED <<script, at, second, tarball, download, tree, installed,
                          prepared, built, faults>>

Prepare == present \/ fetch \/ rename \/ unpack \/ unpack_fails

-----------------------------------------------------------------------------
(* build-toolchain.sh                                                      *)

start_build ==
  /\ script = "none" /\ script' = "build"
  /\ installed' = {} /\ built' = FALSE
  /\ UNCHANGED <<at, second, tarball, download, tree, copied, prepared, faults>>

b == BUILDS[at]

\* pushd into the kernel's tree; the others are unpacked anew from the archive.
unpacks == IF b = "headers" THEN tree # "none" ELSE tarball[Archive(b)] = "whole"

\* What configure, patch and cp look for.
finds_all == Needs(b) \subseteq installed /\ (b = "uclibc" => copied = Extras)

build == /\ script = "build"
         /\ unpacks /\ finds_all
         /\ installed' = installed \cup {b}
         /\ IF at < Len(BUILDS) THEN at' = at + 1 /\ UNCHANGED <<script, built>>
            ELSE at' = 1 /\ script' = "none" /\ built' = TRUE
         /\ UNCHANGED <<second, tarball, download, tree, copied, prepared, faults>>

\* tar, or a command that does not find what it needs; and the make of a
\* tree of which a part is missing may fail, or not come by what is missing.
build_fails == /\ script = "build"
               /\ \/ ~unpacks
                  \/ ~finds_all
                  \/ tree = "part" /\ b \in {"headers", "uclibc", "gcc_final"}
               /\ exit(Len(BUILDS))
               /\ UNCHANGED <<tarball, download, tree, copied, installed, faults>>

build_interrupted == /\ script = "build" /\ fault
                     /\ script' = "none" /\ at' = 1 /\ second' = FALSE
                     /\ UNCHANGED <<tarball, download, tree, copied, installed, prepared, built>>

Build == build \/ build_fails

Next == \/ start_prepare \/ Prepare \/ fetch_fails \/ prepare_interrupted
        \/ \E q \in Packages : clean(q)
        \/ \E f \in Extras : copy(f)
        \/ start_build \/ Build \/ build_interrupted

\* A running script goes on; and the user does not give up: each of the two
\* scripts is asked for again and again.
Fairness == /\ WF_vars(Prepare) /\ WF_vars(Build)
            /\ SF_vars(start_prepare) /\ SF_vars(start_build)

Spec == Init /\ [][Next]_vars /\ Fairness

-----------------------------------------------------------------------------
(* Properties.                                                             *)

States == {"none", "part", "whole"}

TypeOK == /\ script \in {"none", "prepare", "build"}
          /\ at \in 1 .. IF script = "prepare" THEN Len(PACKAGES) ELSE Len(BUILDS)
          /\ script = "none" => at = 1
          /\ second \in BOOLEAN
          /\ second => /\ script = "prepare" /\ p \in {"kernel", "gmp"}
                       /\ p = "gmp" => download = "whole"
          /\ tarball \in [Packages -> States] /\ download \in States /\ tree \in States
          /\ copied \subseteq Extras /\ installed \subseteq Builds
          /\ prepared \in BOOLEAN /\ built \in BOOLEAN
          /\ faults \in 0 .. MaxFaults

\* gmp, which is renamed when it is complete (prepare.sh:75-76), is never there
\* in part under the name that later runs look for.
RenamedIsWhole == tarball["gmp"] # "part"

\* prepare.sh comes to its end only when every package and the kernel's tree
\* are there in some form (prepare.sh:35-117).
PreparedHasAll ==
  prepared => (\A q \in Packages : tarball[q] # "none") /\ tree # "none"

\* However the earlier runs ended, a build that came to its end has installed
\* everything in this run, from whole archives and with the files that only the
\* user can have copied: what is in part or missing stops it.  The kernel is the
\* exception: its tree is taken as it stands (line 64).
BuiltFromWhole ==
  built => /\ installed = Builds
           /\ \A q \in Packages \ {"kernel"} : tarball[q] = "whole"
           /\ copied = Extras

\* What is there under its final name, in part or whole, is not written again
\* by any later run (prepare.sh:35-117): a part stays a part until the user
\* removes it, and a whole archive is not downloaded twice.
FinalNamesUntouched ==
  [][(script # "none") =>
       /\ \A q \in Packages : tarball[q] # "none" => tarball'[q] = tarball[q]
       /\ tree # "none" => tree' = tree]_vars

\* Once the user has copied what no script copies and nothing is there in part,
\* the one who keeps running the two scripts gets the toolchain: the order of the
\* builds gives each what it needs.
EventuallyBuilt ==
  <>[](/\ copied = Extras /\ tree # "part"
       /\ \A q \in Packages : tarball[q] # "part") => []<>built
=============================================================================
