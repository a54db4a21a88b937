SPECIFICATION NmeaSpec
CONSTANTS
  MaxViewed = 1
  SvReport <- Reports
INVARIANTS DifferentialIsMeant
