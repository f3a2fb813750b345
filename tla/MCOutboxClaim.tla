--------------------------- MODULE MCOutboxClaim ---------------------------
(* The claim window as its holder sees it: window[o][e] is what is left of *)
(* the ttl ClaimBatch last gave Outbox o for event e. The store keeps only *)
(* one claimedUntil per entry (lease), which MarkFailed resets whoever     *)
(* calls it.                                                               *)
EXTENDS Outbox, TLC

CONSTANTS o1, o2, e1

VARIABLE window

NoKeys == [e \in Envelopes |-> NoKey]

WindowInit == Init /\ window = [o \in Outboxes |-> [e \in Envelopes |-> 0]]

Granted(o) ==
  /\ Claim(o)
  /\ window' = [window EXCEPT ![o] =
       [e \in Envelopes |-> IF e \in batch'[o] THEN ClaimTTL ELSE @[e]]]

Elapsed ==
  /\ Tick
  /\ window' = [o \in Outboxes |-> [e \in Envelopes |->
                  IF window[o][e] > 0 THEN window[o][e] - 1 ELSE 0]]

Other ==
  /\ Next
  /\ ~Tick
  /\ \A o \in Outboxes : ~Claim(o)
  /\ UNCHANGED window

WindowNext == (\E o \in Outboxes : Granted(o)) \/ Elapsed \/ Other

WindowSpec == WindowInit /\ [][WindowNext]_<<vars, window>>

(* "ClaimBatch atomically reserves the entries it returns for ttl, so      *)
(* concurrent dispatchers cannot receive the same entry within a claim     *)
(* window" (memory_store.go:85-87): two dispatchers never hold an event    *)
(* while both are inside the window they were given for it.                *)
ClaimReserves ==
  \A e \in Envelopes, o, p \in Outboxes :
    o # p /\ e \in Held(o) \cap Held(p) => window[o][e] = 0 \/ window[p][e] = 0

OutboxSymmetry == Permutations(Outboxes)
=============================================================================
