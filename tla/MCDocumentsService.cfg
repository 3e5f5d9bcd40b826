CONSTANTS
  x1 = x1
  x2 = x2
  shelter = shelter
  other = other
  admin = admin
  mail = mail
  home = home
  away = away
  work = work
  a1 = a1
  u1 = u1
  u2 = u2
  v1 = v1
  Account = {x1, x2, shelter, other, admin}
  Email = {mail, home, away, work}
  EmailOf <- TwoOfOne
  Admin = {admin}
  Seed = {shelter, other, admin}
  Avatar = {v1}
  AvatarOf <- AvatarOfX1
  NoAvatar = NoAvatar
  Adoption = {a1}
  Adopter <- OneAdopts
  Giver <- OneGives
  Upload = {u1, u2}
  MaxFiles = 2
SPECIFICATION Spec
SYMMETRY Uploads
CHECK_DEADLOCK FALSE
INVARIANTS
  TypeOK
  OneAccountPerEmail
  ReferencesStand
  UploadsAreWhole
