--------------------------- MODULE MCAccountSwitch ----------------------------
EXTENDS AccountSwitch
CONSTANTS A, B
MCAccounts == {A, B}
===============================================================================
