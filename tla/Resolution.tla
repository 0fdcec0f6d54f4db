----------------------------- MODULE Resolution -----------------------------
(***************************************************************************)
(* What the client promises about the hosts that its methods talk to.      *)
(* NewClient decides them once: the services that the user fixed, a region *)
(* and its default hosts for the others.  After that a login may move any  *)
(* of the others to a host that its catalog names for the region, all of   *)
(* them at once, and nothing else moves one.                               *)
(***************************************************************************)
EXTENDS Naturals

CONSTANTS
  Services,
  Hosts,           (* the hosts there can be                           *)
  NoHost,          (* the host of a service before that                *)
  Regions,         (* "" for none                                      *)
  Catalogs,        (* the catalogs that a login can return             *)
  Default(_, _),   (* the host of a service in a region                *)
  Named(_, _, _)   (* the hosts that a catalog names for a service in  *)
                   (*   a region                                       *)

VARIABLES
  hosts,    (* by service                              *)
  fixed,    (* the services whose hosts the user chose *)
  region,   (* of the others                           *)
  made,     (* NewClient has returned                  *)
  logins    (* the logins since                        *)

resolutionVars == <<hosts, fixed, region, made, logins>>

Init ==
  /\ hosts = [s \in Services |-> NoHost]
  /\ fixed = {}
  /\ region = ""
  /\ made = FALSE
  /\ logins = 0

Create ==
  /\ ~made
  /\ made' = TRUE
  /\ region' \in Regions
  /\ fixed' \in SUBSET Services
  /\ hosts' \in [Services -> Hosts]
  /\ \A s \in Services \ fixed' : hosts'[s] = Default(s, region')
  /\ UNCHANGED logins

LogIn ==
  /\ made
  /\ logins' = logins + 1
  /\ hosts' \in [Services -> Hosts]
  /\ \E catalog \in Catalogs :
       \A s \in Services :
         hosts'[s] = hosts[s] \/ (s \notin fixed /\ hosts'[s] \in Named(catalog, region, s))
  /\ UNCHANGED <<fixed, region, made>>

Next == Create \/ LogIn

Spec == Init /\ [][Next]_resolutionVars
=============================================================================
