------------------------------- MODULE MCSession -------------------------------
EXTENDS Session

CONSTANTS t1, t2

MCTabs  == {t1, t2}
MCOne   == {t1}
MCSlots == 1..2
=============================================================================
