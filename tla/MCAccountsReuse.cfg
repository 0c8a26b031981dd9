SPECIFICATION MCSpec
CONSTANTS
  ann = ann
  off = off
  new1 = new1
  new2 = new2
  k1 = k1
  k2 = k2
  e1 = e1
  n0 = n0
  n1 = n1
  n2 = n2
  n3 = n3
  t1 = t1
  t2 = t2
  t3 = t3
  Users <- MCUsers
  Seeded = {ann, off}
  Inactive = {off}
  Emails = {e1}
  Nicknames = {n0, n1, n2, n3}
  KakaoIds = {k1, k2}
  KakaoEmail <- MCKakaoEmail
  KakaoName <- MCKakaoName
  Tokens = {t1, t2, t3}
  States = {s1, s2}
  Devices = {d1, d2}
  Requests = {r1, r2, r3}
  None = None
INVARIANT FamilyKilled
CHECK_DEADLOCK FALSE
