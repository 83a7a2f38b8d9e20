------------------------- MODULE MCSlotSubscriptions -------------------------
EXTENDS SlotSubscriptions

CONSTANTS a1, o1, s1, web, monitor

MCAccountOf == [o \in Orders |-> a1]
MCSlotOf == [o \in Orders |-> s1]
=============================================================================
