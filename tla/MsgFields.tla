------------------------------ MODULE MsgFields ------------------------------
(***************************************************************************)
(* The JSON codecs of two message fields: the cmd_id of a command          *)
(* (core/src/ten_runtime/msg/cmd_base/field/cmd_id.c) and the timestamp of *)
(* an audio frame (core/src/ten_runtime/msg/audio_frame/field/timestamp.c) *)
(*                                                                         *)
(* Both live under the reserved "_ten" object of a message's JSON form     *)
(* (spec 6).  put_*_to_json writes the field into "_ten", creating that    *)
(* object when it is missing or not an object; get_*_from_json reads it    *)
(* back into a message; copy_* clones it from another message.  A JSON     *)
(* document is abstracted to its "_ten" member: absent, present but not an *)
(* object, or an object mapping some keys to JSON values.                  *)
(***************************************************************************)
EXTENDS Integers

CONSTANTS
    Cmds,            \* command messages
    Frames,          \* audio frame messages
    CmdIds,          \* cmd_id strings
    Stamps,          \* int64 timestamps
    MissingInteger   \* what ten_json_object_get_integer returns for a key
                     \* that is absent or not an integer

ASSUME ConstAssumption ==
    /\ Cmds # {} /\ Frames # {} /\ CmdIds # {}
    /\ Stamps \subseteq Int /\ MissingInteger \in Stamps

\* The keys of "_ten" these codecs read and write.
Keys == {"cmd_id", "timestamp"}

\* A JSON value under one of the keys: a string, an integer, or anything
\* else (null, a bool, an object ...).
JsonValues ==
    [kind: {"string"}, val: CmdIds]
      \cup [kind: {"integer"}, val: Stamps]
      \cup [kind: {"other"}, val: {0}]

\* The "_ten" member of a document: its kind and, for an object, its keys.
EmptyObject == [k \in {} |-> 0]
TenObjects == UNION {[K -> JsonValues] : K \in SUBSET Keys}
TenMembers ==
    [kind: {"absent", "nonobject"}, obj: {EmptyObject}]
      \cup [kind: {"object"}, obj: TenObjects]

IsObject(t) == t.kind = "object"

\* ten_json_object_peek_object_forcibly(json, "_ten"): the "_ten" object,
\* replaced by an empty one when it is missing or not an object.
ForciblyObject(t) == IF IsObject(t) THEN t.obj ELSE EmptyObject

\* ten_json_object_set_new on "_ten": add the key, or replace its value.
SetKey(obj, k, jv) ==
    [kind |-> "object",
     obj |-> [x \in DOMAIN obj \cup {k} |-> IF x = k THEN jv ELSE obj[x]]]

\* ten_json_object_get_integer (ten_utils): the integer under k, or the
\* default when the key is absent or holds something else.
JsonObjectGetInteger(obj, k) ==
    IF k \in DOMAIN obj /\ obj[k].kind = "integer" THEN obj[k].val
    ELSE MissingInteger

\* Variant of CmdIdFromJson without the ten_json_is_string check.
CmdIdFromJsonUnchecked(t, old) ==
    IF IsObject(t) /\ "cmd_id" \in DOMAIN t.obj THEN t.obj["cmd_id"].val
    ELSE old

\* ten_cmd_base_get_cmd_id_from_json on a message whose cmd_id is old: no
\* "_ten" object, no "cmd_id" key, or a cmd_id that is not a string
\* (logged) leave it as it was.
CmdIdFromJson(t, old) ==
    IF IsObject(t) /\ "cmd_id" \in DOMAIN t.obj
       /\ t.obj["cmd_id"].kind = "string"
    THEN t.obj["cmd_id"].val ELSE old

\* ten_audio_frame_get_timestamp_from_json on a frame whose timestamp is
\* old: without a "_ten" object nothing happens; with one, the timestamp is
\* set to whatever ten_json_object_get_integer returns.
TimestampFromJson(t, old) ==
    IF IsObject(t) THEN JsonObjectGetInteger(t.obj, "timestamp") ELSE old

VARIABLES
    cmdId,    \* the cmd_id of each command
    stamp,    \* the timestamp of each audio frame
    doc,      \* the "_ten" member of the JSON document being worked on
    written   \* history: the field values put into doc since it arrived

vars == <<cmdId, stamp, doc, written>>

-----------------------------------------------------------------------------
Init ==
    /\ cmdId \in [Cmds -> CmdIds]
    /\ stamp \in [Frames -> Stamps]
    /\ doc = [kind |-> "absent", obj |-> EmptyObject]
    /\ written = EmptyObject

\* A document arrives from outside (a client, a property set from JSON).
Receive(t) ==
    /\ doc' = t
    /\ written' = EmptyObject
    /\ UNCHANGED <<cmdId, stamp>>

\* Records in the history that field k was put with value x.
Wrote(k, x) == written' = [y \in DOMAIN written \cup {k} |->
                             IF y = k THEN x ELSE written[y]]

\* Variant of PutCmdIdToJson that peeks "_ten" (ten_json_object_peek_object)
\* instead of creating it, and writes nothing when it is missing.
PutCmdIdToJsonPeek(c) ==
    /\ doc' = IF IsObject(doc)
              THEN SetKey(doc.obj, "cmd_id", [kind |-> "string", val |-> cmdId[c]])
              ELSE doc
    /\ Wrote("cmd_id", cmdId[c])
    /\ UNCHANGED <<cmdId, stamp>>

\* ten_cmd_base_put_cmd_id_to_json.
PutCmdIdToJson(c) ==
    /\ doc' = SetKey(ForciblyObject(doc), "cmd_id",
                     [kind |-> "string", val |-> cmdId[c]])
    /\ Wrote("cmd_id", cmdId[c])
    /\ UNCHANGED <<cmdId, stamp>>

\* ten_cmd_base_get_cmd_id_from_json.
GetCmdIdFromJson(c) ==
    /\ cmdId' = [cmdId EXCEPT ![c] = CmdIdFromJson(doc, @)]
    /\ UNCHANGED <<stamp, doc, written>>

\* ten_cmd_base_copy_cmd_id: self's cmd_id is re-initialised from src's.
CopyCmdId(c, src) ==
    /\ cmdId' = [cmdId EXCEPT ![c] = cmdId[src]]
    /\ UNCHANGED <<stamp, doc, written>>

\* ten_audio_frame_put_timestamp_to_json.
PutTimestampToJson(f) ==
    /\ doc' = SetKey(ForciblyObject(doc), "timestamp",
                     [kind |-> "integer", val |-> stamp[f]])
    /\ Wrote("timestamp", stamp[f])
    /\ UNCHANGED <<cmdId, stamp>>

\* ten_audio_frame_get_timestamp_from_json.
GetTimestampFromJson(f) ==
    /\ stamp' = [stamp EXCEPT ![f] = TimestampFromJson(doc, @)]
    /\ UNCHANGED <<cmdId, doc, written>>

\* ten_audio_frame_copy_timestamp.
CopyTimestamp(f, src) ==
    /\ stamp' = [stamp EXCEPT ![f] = stamp[src]]
    /\ UNCHANGED <<cmdId, doc, written>>

Next ==
    \/ \E t \in TenMembers : Receive(t)
    \/ \E c \in Cmds : \/ PutCmdIdToJson(c)
                       \/ GetCmdIdFromJson(c)
                       \/ \E src \in Cmds : CopyCmdId(c, src)
    \/ \E f \in Frames : \/ PutTimestampToJson(f)
                         \/ GetTimestampFromJson(f)
                         \/ \E src \in Frames : CopyTimestamp(f, src)

Spec == Init /\ [][Next]_vars

-----------------------------------------------------------------------------
(***************************************************************************)
(* Properties                                                              *)
(***************************************************************************)

\* Every variable ranges over its type.
TypeOK ==
    /\ cmdId \in [Cmds -> CmdIds]
    /\ stamp \in [Frames -> Stamps]
    /\ doc \in TenMembers
    /\ written \in UNION {[K -> CmdIds \cup Stamps] : K \in SUBSET Keys}

\* decode(encode(m)) = m (spec 8) for these fields, through any mix of
\* put_cmd_id_to_json and put_timestamp_to_json on the same document: every
\* value put since the document arrived is what get_*_from_json reads back
\* into any message, whatever the message held before.
RoundTrip ==
    /\ "cmd_id" \in DOMAIN written =>
         \A old \in CmdIds : CmdIdFromJson(doc, old) = written["cmd_id"]
    /\ "timestamp" \in DOMAIN written =>
         \A old \in Stamps : TimestampFromJson(doc, old) = written["timestamp"]

\* A "_ten" object that carries no timestamp leaves the frame's timestamp
\* as it was -- as get_cmd_id_from_json skips a "_ten" without a cmd_id
\* ("There is no 'ten::cmd_id' field in json, skip the from_json process").
AbsentTimestampKept ==
    [][\A f \in Frames :
          (GetTimestampFromJson(f) /\ IsObject(doc)
             /\ "timestamp" \notin DOMAIN doc.obj)
             => stamp'[f] = stamp[f]]_vars

=============================================================================
