---------------------------- MODULE MsgFields_proofs ----------------------------
(***************************************************************************)
(* Proofs about the cmd_id and timestamp codecs: the types, and that what  *)
(* was put into a document is what get_*_from_json reads back, for any    *)
(* sets of commands, frames, cmd_ids and timestamps.                       *)
(***************************************************************************)
EXTENDS MsgFields, TLAPS

\* The JSON value put_*_to_json writes for field k with value x.
Encoded(k, x) ==
    IF k = "cmd_id" THEN [kind |-> "string", val |-> x]
    ELSE [kind |-> "integer", val |-> x]

\* Every field put since the document arrived is still in its "_ten"
\* object, with the JSON type its put gave it.
WrittenInDoc ==
    \A k \in DOMAIN written :
        /\ IsObject(doc)
        /\ k \in DOMAIN doc.obj
        /\ doc.obj[k] = Encoded(k, written[k])

\* The cmd_id history holds cmd_ids, the timestamp history timestamps.
WrittenTyped ==
    /\ "cmd_id" \in DOMAIN written => written["cmd_id"] \in CmdIds
    /\ "timestamp" \in DOMAIN written => written["timestamp"] \in Stamps

\* The inductive invariant.
IInv == TypeOK /\ WrittenInDoc /\ WrittenTyped

-----------------------------------------------------------------------------
(* Lemmas about the JSON operators.                                       *)

\* A function over a subset K of T lies in the union of the function sets
\* over the subsets of T.
LEMMA FunInUnion ==
    ASSUME NEW T, NEW S, NEW K \in SUBSET T, NEW g \in [K -> S]
    PROVE  g \in UNION {[J -> S] : J \in SUBSET T}
OBVIOUS

\* The keys and values of a "_ten" object.
LEMMA ObjectParts ==
    ASSUME NEW obj \in TenObjects
    PROVE  /\ DOMAIN obj \subseteq Keys
           /\ obj \in [DOMAIN obj -> JsonValues]
BY DEF TenObjects

\* The object under a "_ten" member that is an object.
LEMMA MemberObject ==
    ASSUME NEW t \in TenMembers, IsObject(t)
    PROVE  t.obj \in TenObjects
BY DEF TenMembers, IsObject

\* peek_object_forcibly always yields an object.
LEMMA ForciblyObjectType ==
    ASSUME NEW t \in TenMembers
    PROVE  ForciblyObject(t) \in TenObjects
<1>1. EmptyObject \in TenObjects
  <2>1. EmptyObject \in [{} -> JsonValues]
    BY DEF EmptyObject
  <2> QED
    BY <2>1, FunInUnion DEF TenObjects
<1> QED
  BY <1>1, MemberObject DEF ForciblyObject

\* ten_json_object_set_new adds the key with its value, and keeps every
\* other key with its value.
LEMMA SetKeyFacts ==
    ASSUME NEW obj \in TenObjects, NEW k \in Keys, NEW jv \in JsonValues
    PROVE  LET t == SetKey(obj, k, jv)
           IN  /\ t \in TenMembers
               /\ IsObject(t)
               /\ DOMAIN t.obj = DOMAIN obj \cup {k}
               /\ t.obj[k] = jv
               /\ \A x \in DOMAIN obj \ {k} : t.obj[x] = obj[x]
<1> DEFINE o == [x \in DOMAIN obj \cup {k} |-> IF x = k THEN jv ELSE obj[x]]
<1>1. o \in TenObjects
  <2>1. DOMAIN obj \cup {k} \subseteq Keys /\ o \in [DOMAIN obj \cup {k} -> JsonValues]
    BY ObjectParts
  <2> QED
    BY <2>1, FunInUnion DEF TenObjects
<1> QED
  BY <1>1 DEF SetKey, TenMembers, IsObject

\* What get_*_from_json reads is of the field's type.
LEMMA FromJsonTypes ==
    ASSUME NEW t \in TenMembers
    PROVE  /\ \A old \in CmdIds : CmdIdFromJson(t, old) \in CmdIds
           /\ \A old \in Stamps : TimestampFromJson(t, old) \in Stamps
<1>1. ASSUME IsObject(t), NEW k \in DOMAIN t.obj PROVE t.obj[k] \in JsonValues
  BY <1>1, MemberObject, ObjectParts
<1>2. \A old \in CmdIds : CmdIdFromJson(t, old) \in CmdIds
  BY <1>1 DEF CmdIdFromJson, JsonValues
<1>3. \A old \in Stamps : TimestampFromJson(t, old) \in Stamps
  BY <1>1, ConstAssumption DEF TimestampFromJson, JsonObjectGetInteger, JsonValues
<1> QED
  BY <1>2, <1>3

\* The history is a function from some keys to field values.
LEMMA WrittenParts ==
    ASSUME TypeOK
    PROVE  /\ DOMAIN written \subseteq Keys
           /\ written \in [DOMAIN written -> CmdIds \cup Stamps]
BY DEF TypeOK

-----------------------------------------------------------------------------
LEMMA InitIInv == Init => IInv
<1> SUFFICES ASSUME Init PROVE IInv
  OBVIOUS
<1>1. doc \in TenMembers
  BY DEF Init, TenMembers, EmptyObject
<1>2. written \in UNION {[K -> CmdIds \cup Stamps] : K \in SUBSET Keys}
  <2>1. written \in [{} -> CmdIds \cup Stamps]
    BY DEF Init, EmptyObject
  <2> QED
    BY <2>1, FunInUnion
<1>3. DOMAIN written = {}
  BY DEF Init, EmptyObject
<1> QED
  BY <1>1, <1>2, <1>3 DEF Init, IInv, TypeOK, WrittenInDoc, WrittenTyped

\* A put of field k with value x, to the object forced out of doc, keeps
\* the invariant.
LEMMA PutIInv ==
    ASSUME IInv, NEW k \in Keys, NEW x,
           IF k = "cmd_id" THEN x \in CmdIds ELSE x \in Stamps,
           doc' = SetKey(ForciblyObject(doc), k, Encoded(k, x)),
           Wrote(k, x),
           UNCHANGED <<cmdId, stamp>>
    PROVE  IInv'
<1> DEFINE obj == ForciblyObject(doc)
<1>1. obj \in TenObjects /\ Encoded(k, x) \in JsonValues
  BY ForciblyObjectType DEF IInv, TypeOK, Encoded, JsonValues
<1>2. /\ doc' \in TenMembers /\ IsObject(doc')
      /\ DOMAIN doc'.obj = DOMAIN obj \cup {k}
      /\ doc'.obj[k] = Encoded(k, x)
      /\ \A y \in DOMAIN obj \ {k} : doc'.obj[y] = obj[y]
  BY <1>1, SetKeyFacts
<1>3. /\ DOMAIN written' = DOMAIN written \cup {k}
      /\ written'[k] = x
      /\ \A y \in DOMAIN written \ {k} : written'[y] = written[y]
  BY DEF Wrote
<1>4. written' \in UNION {[K -> CmdIds \cup Stamps] : K \in SUBSET Keys}
  <2>1. DOMAIN written \cup {k} \subseteq Keys
        /\ written' \in [DOMAIN written \cup {k} -> CmdIds \cup Stamps]
    BY WrittenParts DEF IInv, Wrote
  <2> QED
    BY <2>1, FunInUnion
<1>5. WrittenInDoc'
  <2> SUFFICES ASSUME NEW y \in DOMAIN written'
               PROVE  /\ y \in DOMAIN doc'.obj
                      /\ doc'.obj[y] = Encoded(y, written'[y])
    BY <1>2 DEF WrittenInDoc
  <2>1. CASE y = k
    BY <1>2, <1>3, <2>1
  <2>2. CASE y # k
    <3>1. y \in DOMAIN written
      BY <1>3, <2>2
    <3>2. IsObject(doc) /\ y \in DOMAIN doc.obj
          /\ doc.obj[y] = Encoded(y, written[y])
      BY <3>1 DEF IInv, WrittenInDoc
    <3>3. obj = doc.obj
      BY <3>2 DEF ForciblyObject
    <3> QED
      BY <1>2, <1>3, <2>2, <3>1, <3>2, <3>3
  <2> QED
    BY <2>1, <2>2
<1>6. WrittenTyped'
  BY <1>3 DEF IInv, WrittenTyped
<1> QED
  BY <1>2, <1>4, <1>5, <1>6 DEF IInv, TypeOK

LEMMA NextIInv == IInv /\ [Next]_vars => IInv'
<1> SUFFICES ASSUME IInv, [Next]_vars PROVE IInv'
  OBVIOUS
<1>1. ASSUME NEW t \in TenMembers, Receive(t) PROVE IInv'
  <2>1. written' \in [{} -> CmdIds \cup Stamps] /\ DOMAIN written' = {}
    BY <1>1 DEF Receive, EmptyObject
  <2> QED
    BY <1>1, <2>1, FunInUnion DEF Receive, IInv, TypeOK, WrittenInDoc, WrittenTyped
<1>2. ASSUME NEW c \in Cmds, PutCmdIdToJson(c) PROVE IInv'
  <2>1. "cmd_id" \in Keys /\ cmdId[c] \in CmdIds
    BY DEF Keys, IInv, TypeOK
  <2>2. Encoded("cmd_id", cmdId[c]) = [kind |-> "string", val |-> cmdId[c]]
    BY DEF Encoded
  <2> QED
    BY <1>2, <2>1, <2>2, PutIInv DEF PutCmdIdToJson
<1>3. ASSUME NEW f \in Frames, PutTimestampToJson(f) PROVE IInv'
  <2>1. "timestamp" \in Keys /\ stamp[f] \in Stamps
    BY DEF Keys, IInv, TypeOK
  <2>2. Encoded("timestamp", stamp[f]) = [kind |-> "integer", val |-> stamp[f]]
    BY DEF Encoded
  <2> QED
    BY <1>3, <2>1, <2>2, PutIInv DEF PutTimestampToJson
<1>4. ASSUME NEW c \in Cmds, GetCmdIdFromJson(c) \/ \E src \in Cmds : CopyCmdId(c, src)
      PROVE  IInv'
  <2>1. cmdId' \in [Cmds -> CmdIds]
    BY <1>4, FromJsonTypes DEF GetCmdIdFromJson, CopyCmdId, IInv, TypeOK
  <2> QED
    BY <1>4, <2>1 DEF GetCmdIdFromJson, CopyCmdId, IInv, TypeOK,
                      WrittenInDoc, WrittenTyped
<1>5. ASSUME NEW f \in Frames,
             GetTimestampFromJson(f) \/ \E src \in Frames : CopyTimestamp(f, src)
      PROVE  IInv'
  <2>1. stamp' \in [Frames -> Stamps]
    BY <1>5, FromJsonTypes DEF GetTimestampFromJson, CopyTimestamp, IInv, TypeOK
  <2> QED
    BY <1>5, <2>1 DEF GetTimestampFromJson, CopyTimestamp, IInv, TypeOK,
                      WrittenInDoc, WrittenTyped
<1>6. CASE UNCHANGED vars
  BY <1>6 DEF vars, IInv, TypeOK, WrittenInDoc, WrittenTyped
<1> QED
  BY <1>1, <1>2, <1>3, <1>4, <1>5, <1>6 DEF Next

\* The invariant gives the round trip: the field under "_ten" is the one
\* put, with its JSON type, so get_*_from_json reads it back.
LEMMA IInvRoundTrip == IInv => RoundTrip
<1> SUFFICES ASSUME IInv PROVE RoundTrip
  OBVIOUS
<1>1. ASSUME "cmd_id" \in DOMAIN written
      PROVE  \A old \in CmdIds : CmdIdFromJson(doc, old) = written["cmd_id"]
  <2>1. /\ IsObject(doc) /\ "cmd_id" \in DOMAIN doc.obj
        /\ doc.obj["cmd_id"] = Encoded("cmd_id", written["cmd_id"])
    BY <1>1 DEF IInv, WrittenInDoc
  <2>2. doc.obj["cmd_id"] = [kind |-> "string", val |-> written["cmd_id"]]
    BY <2>1 DEF Encoded
  <2> QED
    BY <2>1, <2>2 DEF CmdIdFromJson
<1>2. ASSUME "timestamp" \in DOMAIN written
      PROVE  \A old \in Stamps : TimestampFromJson(doc, old) = written["timestamp"]
  <2>1. /\ IsObject(doc) /\ "timestamp" \in DOMAIN doc.obj
        /\ doc.obj["timestamp"] = Encoded("timestamp", written["timestamp"])
    BY <1>2 DEF IInv, WrittenInDoc
  <2>2. doc.obj["timestamp"] = [kind |-> "integer", val |-> written["timestamp"]]
    BY <2>1 DEF Encoded
  <2> QED
    BY <2>1, <2>2 DEF TimestampFromJson, JsonObjectGetInteger
<1> QED
  BY <1>1, <1>2 DEF RoundTrip

-----------------------------------------------------------------------------
\* Every variable of the codecs keeps its type, for any sets of commands,
\* frames and values: get_cmd_id_from_json never stores a cmd_id that is not
\* a string, whatever the incoming "_ten" holds.
THEOREM TypeCorrect == Spec => []TypeOK
<1>1. IInv => TypeOK
  BY DEF IInv
<1> QED
  BY InitIInv, NextIInv, <1>1, PTL DEF Spec

\* decode(encode(m)) = m for cmd_id and timestamp, for every number of
\* messages and every incoming document: after any sequence of puts, gets
\* and copies, get_*_from_json reads back the values put since the document
\* arrived.
THEOREM RoundTripInvariant == Spec => []RoundTrip
BY InitIInv, NextIInv, IInvRoundTrip, PTL DEF Spec

=============================================================================
