----------------------------- MODULE MCScheduler -----------------------------
(* The instances of Scheduler that TLC checks.                             *)
EXTENDS Scheduler

LowAndHigh == {PRIORITY_LOW, PRIORITY_HIGH}
OnlyHigh   == {PRIORITY_HIGH}
OnlyMain   == {Main}
MainAndChild == {Main, Main + 1}
Masked     == {FALSE}
==============================================================================
