CONSTANTS
  r1 = r1
  r2 = r2
  r3 = r3
  Bearer <- MCBearer
  TokenTTL = 3
  Brief = 2
  MaxAnswer = 2
SPECIFICATION PortalSpec
INVARIANTS PortalTypeOK OnlyRevokedDenied
PROPERTY RevokedTokenRefused
