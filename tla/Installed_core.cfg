\* Two roots, each over the other, and two entries of install; a name that ends
\* with another, and a password the shell changes.
CONSTANTS
  Root = {sda1, sdb1}
  Live = live
  None = none
  Systems = {{}, {"base", "sudo", "xorg"}}
  MaxVisits = 2
  MaxEntries = 2
  Name = {"ann", "joann"}
  EndsWith <- MCEndsWith
  Password = {"secret", "it's"}
  Marked = {"it's"}
  MaxOps = 3
  Shipped = {us}
  Custom = {own}
  City = {"Paris"}
SPECIFICATION Spec
CONSTRAINT Budget
SYMMETRY Symmetry
INVARIANTS
  TypeOK
  SystemInRoot
  OneSystem
  UsersAsListed
  KeyboardsAgree
  ZoneIsCity
PROPERTIES
  NothingLeftBound
  PasswordTypedTwice
\* The program ends.
CHECK_DEADLOCK FALSE
