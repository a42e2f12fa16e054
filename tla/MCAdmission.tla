------------------------------ MODULE MCAdmission ------------------------------
(* Two services, so a token may be another's; two types; requests share     *)
(* nothing that one of them changes, so one handler at a time is enough.    *)
EXTENDS Admission, Texts

CONSTANTS s1, s2, other

(* The second catalog lifts the drop of job_progress and drops the other.   *)
MCEmpty == [p \in Services \X Types |-> "absent"]
MCListed == [p \in Services \X Types |-> IF p[2] = other THEN "drop" ELSE "keep"]
MCCatalogs == {MCEmpty, MCListed}

-----------------------------------------------------------------------------
(* The functions of Texts on all names of up to seven runes, clamped to     *)
(* four, and on all byte strings around the limit.                          *)
MCMarker == [i \in 1 .. 15 |-> "m"]
Names == UNION {[1 .. n -> Runes] : n \in 0 .. 7}

ASSUME NamesAreSanitized == \A s \in Names : SanitizeIsExact(s) /\ NamedTopicIsClean(s)

(* The two that fail do so only for names with control runes, or clamped.   *)
ASSUME NamesNotSanitized ==
  /\ \E s \in Names : ~ BlankIsEmpty(s)
  /\ \E s \in Names : ~ Idempotent(s)
  /\ \A s \in Names : ~ BlankIsEmpty(s) => "control" \in Range(s)
  /\ \A s \in Names :
       ~ Idempotent(s) => "control" \in Range(s) \/ Len(Joined(s)) > MaxTopicRunes

ASSUME MessagesAreBounded ==
  \A n \in 12 .. 16, k \in 0 .. 20 : TruncateIsBounded([i \in 1 .. k |-> i], n)

ASSUME CommandLineIsRead == DocumentedOrder("id", "name") /\ ~ IdIsFirst("id", "name")
=============================================================================
