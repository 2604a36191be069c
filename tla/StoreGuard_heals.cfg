SPECIFICATION FairGuard
CONSTANTS
  n1 = n1
  n2 = n2
  t1 = t1
  Gateway = {n1, n2}
  Tenant = {t1}
  MaxWipes = 1
  MaxMishaps = 1
  Calm = TRUE
INVARIANTS  OneNamePerLife NoLastingFalseAlarm
  
