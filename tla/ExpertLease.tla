----------------------------- MODULE ExpertLease -----------------------------
(***************************************************************************)
(* What the expert store promises to the compute threads, without slots,   *)
(* reads or a dispatcher: a client asks for a set of records, is granted   *)
(* all of them at once or none, and while it holds a grant every record of *)
(* it stays readable.  Apart from that the store may load and evict as it  *)
(* likes.                                                                  *)
(***************************************************************************)
EXTENDS FiniteSets

CONSTANTS Clients, Records

VARIABLES readable,   \* records whose bytes a reader finds where it is told
          ask         \* each client: what it wants, and how far it got

leaseVars == <<readable, ask>>

Idle == [st |-> "idle", want |-> {}]
Asking(c)  == ask[c].st = "asking"
Holding(c) == ask[c].st = "holding"
Held       == UNION {ask[c].want : c \in {d \in Clients : Holding(d)}}

LeaseTypeOK == /\ readable \subseteq Records
               /\ ask \in [Clients -> [st : {"idle", "asking", "holding"},
                                       want : SUBSET Records]]

LeaseInit == readable = {} /\ ask = [c \in Clients |-> Idle]

Ask(c) ==
  /\ ask[c] = Idle
  /\ \E W \in (SUBSET Records) \ {{}} : ask' = [ask EXCEPT ![c] = [st |-> "asking", want |-> W]]
  /\ UNCHANGED readable

GiveBack(c) ==
  /\ Holding(c)
  /\ ask' = [ask EXCEPT ![c] = Idle]
  /\ UNCHANGED readable

(* The store works: it changes what is readable, except for what is held,   *)
(* grants requests whose records are all readable and turns others down.    *)
Work(granted, refused) ==
  /\ granted \cap refused = {}
  /\ \A c \in granted \cup refused : Asking(c)
  /\ readable' \in SUBSET Records
  /\ Held \subseteq readable'
  /\ \A c \in granted : ask[c].want \subseteq readable'
  /\ ask' = [c \in Clients |-> CASE c \in granted -> [ask[c] EXCEPT !.st = "holding"]
                                 [] c \in refused -> Idle
                                 [] OTHER -> ask[c]]

LeaseNext == \/ \E c \in Clients : Ask(c) \/ GiveBack(c)
             \/ \E granted, refused \in SUBSET Clients : Work(granted, refused)

LeaseSpec == LeaseInit /\ [][LeaseNext]_leaseVars

(* While a client holds a grant, it can read every record of it: a store    *)
(* never evicts or overwrites what is leased.                               *)
HeldIsReadable == Held \subseteq readable
=============================================================================
