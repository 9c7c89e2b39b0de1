SPECIFICATION FairSpec
CONSTANTS
  a1 = a1
  a2 = a2
  a3 = a3
  Head = Head
  Alarms <- const_Alarms
  Modulus = 5
  StartTicks <- const_StartTicks
  Periods <- const_Periods
  StopAny = FALSE
INVARIANTS
  TypeOK
PROPERTIES
  ImplementsAlarms
  TickEnds
