----------------------------- MODULE Discovery -----------------------------
(***************************************************************************)
(* How an AddrIndex finds its servers                                      *)
(* (iroh-mainline-endpoint-discovery/src/addr_index.rs): the signed list,  *)
(* the stored copy of it and the rendezvous hash, in that order, when it   *)
(* is built and then from time to time.                                    *)
(***************************************************************************)
EXTENDS ServerListRenewal

CONSTANTS Announced,  \* the servers announced under the rendezvous hash
          MaxAnswers  \* bound: answers per lookup of the list

ASSUME DiscoveryAssumption == Announced \subseteq Server /\ MaxAnswers \in Nat

VARIABLES
  rendezvous, \* whether there is a Sources::rendezvous_hash
  fallback,   \* Sources::fallback_list
  signed,     \* DiscoveryState::signed
  client,     \* the servers of the UdpClient
  servers,    \* AddrIndex::servers
  refresh,    \* the locals of Discovery::refresh
  heard       \* the newest list that this index has had (history)

index == <<fallback, signed, client, servers, refresh, heard>>

NoRefresh == [pc |-> "none"]
Collecting(list) == [pc |-> "collect", found |-> list, answers |-> 0]

\* build: a new index, without servers.
NewIndex(stored) ==
  /\ fallback' = stored
  /\ signed' = Absent /\ heard' = Absent
  /\ client' = {} /\ servers' = {}
  /\ refresh' = Collecting(Absent)

NoIndex ==
  /\ fallback' = Absent /\ signed' = Absent /\ heard' = Absent
  /\ client' = {} /\ servers' = {} /\ refresh' = NoRefresh

InitIndex ==
  /\ rendezvous \in BOOLEAN
  /\ fallback = Absent /\ signed = Absent /\ heard = Absent
  /\ client = {} /\ servers = {} /\ refresh = NoRefresh

Newer(item, old) == old = Absent \/ item > old

\* Mutant: the last answer counts.
acceptLast(old, item) == IF Decodes(item) THEN item ELSE old

\* DiscoveryState::accept.
accept(old, item) == IF Decodes(item) /\ Newer(item, old) THEN item ELSE old

Refreshing(pc) == refresh.pc = pc

\* collect_within: an answer for the list, from any node. The code keeps the answers and
\* accepts them in this order when the lookup has ended; here each is accepted into `found`.
Answer(i) ==
  /\ Refreshing("collect")
  /\ i \in held /\ refresh.answers < MaxAnswers
  /\ refresh' = [pc |-> "collect", found |-> accept(refresh.found, i),
                 answers |-> refresh.answers + 1]
  /\ heard' = IF Decodes(i) /\ Newer(i, heard) THEN i ELSE heard
  /\ UNCHANGED <<fallback, signed, client, servers>>

\* The lookup of the list has ended, failed or timed out: what it found counts all the same,
\* and the stored copy if no list was ever found.
Collected ==
  /\ Refreshing("collect")
  /\ signed' = IF refresh.found = Absent /\ fallback # Absent THEN accept(Absent, fallback)
               ELSE refresh.found
  /\ heard' = IF heard = Absent THEN fallback ELSE heard
  /\ LET peers == IF signed' = Absent THEN {} ELSE Addresses[signed']
         withdrawn == signed' # Absent /\ peers = {}
     IN  refresh' = IF peers = {} /\ rendezvous
                    THEN [pc |-> "rendezvous", peers |-> {}, withdrawn |-> withdrawn]
                    ELSE IF peers # {} \/ withdrawn THEN [pc |-> "replace", peers |-> peers]
                    ELSE [pc |-> "failed"]
  /\ UNCHANGED <<fallback, client, servers>>

\* A server that is announced; two are enough.
Peer(s) ==
  /\ Refreshing("rendezvous")
  /\ s \in Announced \ refresh.peers
  /\ LET peers == refresh.peers \cup {s}
     IN  refresh' = IF Cardinality(peers) = 2 THEN [pc |-> "replace", peers |-> peers]
                    ELSE [pc |-> "rendezvous", peers |-> peers, withdrawn |-> refresh.withdrawn]
  /\ UNCHANGED <<fallback, signed, client, servers, heard>>

\* The announcements have ended, failed or timed out.
RendezvousEnds ==
  /\ Refreshing("rendezvous")
  /\ refresh' = IF refresh.peers # {} \/ refresh.withdrawn
                THEN [pc |-> "replace", peers |-> refresh.peers] ELSE [pc |-> "failed"]
  /\ UNCHANGED <<fallback, signed, client, servers, heard>>

\* UdpClient::replace_servers.
Replace ==
  /\ Refreshing("replace")
  /\ client' = refresh.peers
  /\ refresh' = [pc |-> "watch", peers |-> refresh.peers]
  /\ UNCHANGED <<fallback, signed, servers, heard>>

\* send_if_modified.
Watch ==
  /\ Refreshing("watch")
  /\ servers' = refresh.peers
  /\ refresh' = [pc |-> "done"]
  /\ UNCHANGED <<fallback, signed, client, heard>>

Refresh ==
  \/ Collected \/ RendezvousEnds \/ Replace \/ Watch
  \/ \E i \in Item : Answer(i)
  \/ \E s \in Server : Peer(s)

\* The background task of build: after DISCOVERY_REFRESH, or DISCOVERY_RETRY if it failed.
RefreshAgain ==
  /\ Refreshing("done") \/ Refreshing("failed")
  /\ refresh' = Collecting(signed)
  /\ UNCHANGED <<fallback, signed, client, servers, heard>>
============================================================================
