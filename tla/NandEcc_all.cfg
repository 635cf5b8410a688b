SPECIFICATION Spec
CONSTANTS
  Machines <- SmallAndLarge
  Pages <- SomePages
  Weak <- WeakBytes
INVARIANTS OneFlipCorrected TwoFlipsNotMiscorrected VersionsAgree TestLocates EndianNeutral
