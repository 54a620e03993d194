------------------------------- MODULE MCAnswered -----------------------------
(***************************************************************************)
(* The instance of Leads for its safety, and beside it what else people do *)
(* to campaigns: the agent's page and the detection of machines, of a call *)
(* that was answered; the administrators' pages and their files.  They     *)
(* share no variable; a behaviour is of one of them.                       *)
(*                                                                         *)
(* The page: a lead of her own campaign and one of another, whose calls    *)
(* she takes as a closer, and two calls, so that an answer may come when   *)
(* the next customer is there.  The detection: talk of two frames, ended   *)
(* by two silent ones.  The files: two campaigns, one's name in the        *)
(* other's, and two requests, of one browser or of two.  The pages: a      *)
(* browser and two campaigns, which the API creates, starts and deletes.   *)
(***************************************************************************)
EXTENDS MCLeads, CrmPage, Detect, AdminFiles, AdminPages

CONSTANTS short, long

PageCustomers == {[campaign |-> c, id |-> 1] : c \in Campaigns}
SomeOptions == {{}, {"x", "f"}, {"d", "t"}}

MCWithin == {<<short, short>>, <<long, long>>, <<short, long>>}
MCSymmetry == SlotSymmetry \cup Permutations(Admins)

VARIABLE part

MCInit ==
  /\ Init /\ PageInit /\ DetectInit /\ FilesInit /\ PagesInit
  /\ part \in {"table", "page", "detection", "files", "pages"}
  /\ part # "table" => \A l \in Ids : ~ row[l].today /\ row[l].cb = "none"
  /\ part # "detection" => det.app = "machine"
  /\ part # "files" => Head(conf["queues"]).of = short
  /\ part # "pages" => active = {}
\* The application has returned; the requests are answered.
Over == det.at = "returned" /\ UNCHANGED detvars
Asleep == orders = MaxOrders /\ (\A u \in Admins : AtRest(u)) /\ UNCHANGED filevars
MCNext ==
  /\ \/ part = "table" /\ Next /\ UNCHANGED <<pagevars, detvars, filevars, pagesvars>>
     \/ part = "page" /\ PageNext /\ UNCHANGED <<vars, detvars, filevars, pagesvars>>
     \/ part = "detection" /\ (DetectNext \/ Over) /\ UNCHANGED <<vars, pagevars, filevars, pagesvars>>
     \/ part = "files" /\ (FilesNext \/ Asleep) /\ UNCHANGED <<vars, pagevars, detvars, pagesvars>>
     \/ part = "pages" /\ PagesNext /\ UNCHANGED <<vars, pagevars, detvars, filevars>>
  /\ UNCHANGED part
MCSpec == MCInit /\ [][MCNext]_<<vars, pagevars, detvars, filevars, pagesvars, part>>
===============================================================================
