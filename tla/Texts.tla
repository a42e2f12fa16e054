--------------------------------- MODULE Texts ---------------------------------
(***************************************************************************)
(* The pure functions of strings on the way of a service's name and of a   *)
(* message: topic.SanitizeTopicName and its users, ingest.truncate, and    *)
(* the argument handling of the command line's service commands.           *)
(* MCAdmission compares them with their references on all short inputs.    *)
(***************************************************************************)
EXTENDS Integers, SequencesExt

CONSTANTS MaxTopicRunes, \* 128: what Telegram takes as a topic's name
          Marker         \* the bytes of the truncation marker, 15

(* Runes: unicode.IsSpace, else Cc or Cf, else anything that prints. *)
Runes == {"space", "control", "letter"}

(* SanitizeTopicName's first loop: a pending space is written only between *)
(* two other runes, control runes included.                                *)
Collapse(s) ==
  FoldLeft(LAMBDA b, r :
             IF r = "space" THEN [b EXCEPT !.pending = TRUE]
             ELSE [out |-> b.out \o (IF b.pending /\ b.out # <<>> THEN <<"space">> ELSE <<>>)
                             \o <<r>>,
                   pending |-> FALSE],
           [out |-> <<>>, pending |-> FALSE], s).out

Clamp(s) == IF Len(s) > MaxTopicRunes THEN SubSeq(s, 1, MaxTopicRunes) ELSE s

(* Collapse, then drop the control runes, then clamp. *)
SanitizeTopicName(s) == Clamp(SelectSeq(Collapse(s), LAMBDA r : r # "control"))

(* handleLink: what UPDATE services SET display_name stores, given the old. *)
StoredName(old, raw) == IF SanitizeTopicName(raw) = <<>> THEN old ELSE SanitizeTopicName(raw)

(* TopicResolverFor: the stored name itself if nothing is left of it.      *)
TopicName(stored) ==
  IF SanitizeTopicName(stored) = <<>> THEN stored ELSE SanitizeTopicName(stored)

(* truncate: n counts bytes, and so does the cut.                          *)
Truncate(s, n) == IF Len(s) <= n THEN s ELSE SubSeq(s, 1, n - 12) \o Marker

(* svcArgs takes "--name" out of the arguments, and remembers what follows *)
(* it, but leaves that where it was.                                       *)
NameAt(args) == {i \in 1 .. Len(args) - 1 : args[i] = "--name"}
First(S) == CHOOSE i \in S : \A j \in S : i <= j
Arguments(args) ==
  IF NameAt(args) = {} THEN [name |-> "", rest |-> args]
  ELSE [name |-> args[First(NameAt(args)) + 1], rest |-> RemoveAt(args, First(NameAt(args)))]

-----------------------------------------------------------------------------
(* References and properties of them, for every input s or args.           *)

Letters(s) == SelectSeq(s, LAMBDA r : r = "letter")

(* The words of s, joined by one space: what remains of s when every run   *)
(* of spaces, and of those at the edges, is replaced.                      *)
Joined(s) ==
  LET kept == {i \in DOMAIN s :
                 \/ s[i] # "space"
                 \/ /\ i < Len(s) /\ s[i + 1] # "space"
                    /\ \E j \in 1 .. i - 1 : s[j] # "space"}
  IN [k \in 1 .. Cardinality(kept) |->
        s[CHOOSE i \in kept : Cardinality({j \in kept : j <= i}) = k]]

(* A name without control runes comes out as its words joined by single    *)
(* spaces, clamped; from any name no control rune comes out, and its       *)
(* letters come out in order.                                              *)
SanitizeIsExact(s) ==
  LET t == SanitizeTopicName(s) IN
  /\ "control" \notin Range(s) => t = Clamp(Joined(s))
  /\ "control" \notin Range(t) /\ Len(t) <= MaxTopicRunes
  /\ IsPrefix(Letters(t), Letters(s))

(* A service that named itself gets a topic with letters in its name if    *)
(* its name has any, before the clamp, and never one with control runes.   *)
NamedTopicIsClean(s) ==
  LET t == TopicName(StoredName(<<"letter">>, s)) IN
  /\ t # <<>> /\ "control" \notin Range(t) /\ Len(t) <= MaxTopicRunes

(* Not true of this code: a name that prints nothing comes out empty, and  *)
(* sanitizing what was sanitized changes nothing.  A space between two     *)
(* control runes is kept.                                                  *)
BlankIsEmpty(s) == Letters(s) = <<>> => SanitizeTopicName(s) = <<>>
Idempotent(s) == SanitizeTopicName(SanitizeTopicName(s)) = SanitizeTopicName(s)

(* A text within the limit is kept; a longer one loses its end and becomes *)
(* three bytes longer than the limit.  (At most n is not true.)            *)
TruncateIsBounded(s, n) ==
  IF Len(s) <= n THEN Truncate(s, n) = s
  ELSE Len(Truncate(s, n)) = n + 3 /\ IsPrefix(SubSeq(s, 1, n - 12), Truncate(s, n))

(* create <id> --name <name>: the documented order gives both.  With the   *)
(* option first the name is taken for the id: IdIsFirst is not true.       *)
DocumentedOrder(id, name) ==
  LET a == Arguments(<<id, "--name", name>>) IN a.name = name /\ a.rest[1] = id
IdIsFirst(id, name) == Arguments(<<"--name", name, id>>).rest[1] = id
=============================================================================
