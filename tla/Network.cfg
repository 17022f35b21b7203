SPECIFICATION MCSpec
INVARIANTS
  TablesAgree LightIsRight FiltersAreSound 
PROPERTY
  OutboundIsSacred
VIEW WhatIsRead
\* The bounds on time and calls end every behaviour.
CHECK_DEADLOCK FALSE
