\* Three requests, two at a time.
SPECIFICATION Spec
CONSTANTS
  User = {"root", "ann", "lea"}
  Super = {"root"}
  Admin = {"ann"}
  Category = {"std", "std.cbb"}
  Managed <- MCManaged
  Above <- MCAbove
  Team <- MCTeam
  Responsible <- MCResponsible
  Request = {q1, q2}
  Asks <- MCAsks
  Starts <- MCStarts
  MaxRequests = 3
  None = "none"
SYMMETRY MCSymmetry
INVARIANTS TypeOK PagesFiledWithModule OneDefault
PROPERTIES QuietIsSequential IngestIsAtomic
