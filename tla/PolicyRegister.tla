--------------------------- MODULE PolicyRegister ---------------------------
(***************************************************************************)
(* What weight synchronisation promises to the samplers, whatever carries   *)
(* the weights: the trainer publishes numbered policies, and every sampler  *)
(* holds one published policy as a whole, none or the first to begin with,  *)
(* and only ever moves to a later one.  It says nothing of patches,         *)
(* buckets, requests or handles.                                            *)
(***************************************************************************)
EXTENDS Integers

CONSTANTS Workers,    \* the samplers
          Policies,   \* the contents a policy may have
          MaxVersion  \* the last version published

VARIABLES latest,     \* the newest published version
          content,    \* content[v]: the policy published as version v
          held,       \* held[w]: the version sampler w claims, -1 before its first
          copy        \* copy[w]: the policy sampler w computes with

regVars == <<latest, content, held, copy>>

RegInit == /\ latest = 0
           /\ content \in [0..MaxVersion -> Policies]
           /\ held \in [Workers -> {-1, 0}]
           /\ copy \in [Workers -> Policies]
           /\ \A w \in Workers : held[w] = 0 => copy[w] = content[0]

Publish == /\ latest < MaxVersion
           /\ latest' = latest + 1
           /\ \E c \in Policies : content' = [content EXCEPT ![latest + 1] = c]
           /\ UNCHANGED <<held, copy>>

Adopt(w) == \E v \in (held[w] + 1)..latest :
               /\ held' = [held EXCEPT ![w] = v]
               /\ copy' = [copy EXCEPT ![w] = content[v]]
               /\ UNCHANGED <<latest, content>>

RegNext == Publish \/ \E w \in Workers : Adopt(w)

RegSpec == RegInit /\ [][RegNext]_regVars
=============================================================================
