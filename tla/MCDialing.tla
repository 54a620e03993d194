------------------------------ MODULE MCDialing -------------------------------
(***************************************************************************)
(* Instances of Dialing for TLC.  Times are scaled down: a clock of 4 or 5 *)
(* seconds, refreshes between 1 and 2 seconds, timeouts of 1 and 2.        *)
(***************************************************************************)
EXTENDS Dialing

Setting(function, maxratio, maxlines, timeout, usecallback, usecloser) ==
  [function |-> function, maxratio |-> maxratio, maxabandons |-> 6, maxlines |-> maxlines,
   timeout |-> timeout, usecallback |-> usecallback, usecloser |-> usecloser]

\* An auto and a predictive campaign with the longer timeout in front.
TwoQueues == <<"auto", "pred">>
TwoSettings ==
  [auto |-> Setting("auto", 2, 2, 2, FALSE, FALSE),
   pred |-> Setting("predictive", 4, 3, 1, FALSE, FALSE)]

\* A predictive campaign alone, and one that also dials callbacks.
OneQueue == <<"pred">>
OneSettings == [pred |-> Setting("predictive", 4, 2, 1, FALSE, FALSE)]
CallbackSettings == [pred |-> Setting("power", 3, 2, 2, TRUE, TRUE)]

TwoLeads == {1, 2}
OneLead == {1}
===============================================================================
