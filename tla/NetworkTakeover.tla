--------------------------- MODULE NetworkTakeover ---------------------------
(***************************************************************************)
(* What CleanWeb promises about the system DNS settings of a Mac, without  *)
(* saying how: a network service is pointed at CleanWeb only while its     *)
(* former setting is on record, the record is never rewritten, and it is   *)
(* thrown away only once every service has been given back.                *)
(*                                                                         *)
(* Services in Hotplug may appear and disappear at any moment; nothing is  *)
(* promised about them.  PrivilegedHelper implements this module.          *)
(***************************************************************************)
CONSTANTS
  Services,   \* network services, as networksetup names them
  Hotplug,    \* those that may come and go
  Resolvers,  \* DNS settings a user, a network or DHCP may have chosen
  CleanWeb,   \* the loopback resolver, CLEANWEB_DNS_SERVER
  Absent      \* no setting recorded for a service

VARIABLES
  dns,        \* the DNS setting of every service
  file,       \* the record on disk: "none", "torn" or "valid"
  saved       \* what a valid record says of every service

takeoverVars == <<dns, file, saved>>

Stable == Services \ Hotplug
Settings == Resolvers \cup {CleanWeb}
NothingSaved == [s \in Services |-> Absent]

TypeOK ==
  /\ dns \in [Services -> Settings]
  /\ file \in {"none", "torn", "valid"}
  /\ saved \in [Services -> Settings \cup {Absent}]

Init ==
  /\ dns \in [Services -> Resolvers]
  /\ file = "none"
  /\ saved = NothingSaved

\* Somebody else, a user or the network, changes a setting.
Edit(s) ==
  /\ \E r \in Resolvers : dns' = [dns EXCEPT ![s] = r]
  /\ UNCHANGED <<file, saved>>

\* A record is written where there was none; a crash may tear it.
Record ==
  /\ file = "none"
  /\ file' \in {"valid", "torn"}
  /\ saved' \in [Services -> Settings \cup {Absent}]
  /\ file' = "valid" => \A s \in Stable : saved'[s] \in Resolvers
  /\ UNCHANGED dns

\* A service is pointed at CleanWeb, its former setting being on record.
Take(s) ==
  /\ file = "valid"
  /\ s \in Stable => saved[s] # Absent
  /\ dns' = [dns EXCEPT ![s] = CleanWeb]
  /\ UNCHANGED <<file, saved>>

\* A service gets the recorded setting back.
GiveBack(s) ==
  /\ file = "valid"
  /\ saved[s] # Absent
  /\ dns' = [dns EXCEPT ![s] = saved[s]]
  /\ UNCHANGED <<file, saved>>

\* The record is dropped when no stable service depends on it.
Forget ==
  /\ file = "valid"
  /\ \A s \in Stable : dns[s] # CleanWeb
  /\ file' = "none"
  /\ saved' = NothingSaved
  /\ UNCHANGED dns

Next ==
  \/ Record
  \/ Forget
  \/ \E s \in Services : Edit(s) \/ Take(s) \/ GiveBack(s)

Spec == Init /\ [][Next]_takeoverVars
=============================================================================
