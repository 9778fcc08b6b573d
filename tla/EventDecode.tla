------------------------------ MODULE EventDecode ------------------------------
(***************************************************************************)
(* Event::from_raw (event.rs): the copy of libmpv's event struct into an   *)
(* owned Event, for the libmpv versions the crate runs with.               *)
(*                                                                         *)
(* Before client API 1.108 the struct of END_FILE ends at its error, and   *)
(* START_FILE has no data at all; the Rust declarations describe the newer *)
(* structs (rsmpv-sys/src/lib.rs).  What memory holds is a record: reading *)
(* a field that is not there, or through a null pointer, yields Fault,     *)
(* which nothing in an event equals.  libmpv encodes an event in any of    *)
(* the ways its header allows.  Node::from_raw is the subject of           *)
(* NodeCodec: a node is a value here.                                      *)
(***************************************************************************)
EXTENDS Integers, Sequences

CONSTANTS
    Texts, EmptyText,       \* strings of the program
    Garbled, Repaired,      \* a C string that is no UTF-8, and what to_string_lossy makes of it
    Numbers, Nodes,
    Failures,               \* the error codes, without their sign
    UnknownIds, UnknownReasons,
    MaxArgs,                \* bound: arguments of a client message
    Versions,               \* what mpv_client_api_version may return
    Fault

ASSUME DataAssumption ==
    /\ {EmptyText, Repaired} \subseteq Texts /\ EmptyText # Repaired
    /\ Garbled \notin Texts \cup {Fault} /\ Fault \notin Texts \cup Int
    /\ 0 \in Numbers /\ Numbers \subseteq Nat /\ Versions \subseteq Nat
    /\ Failures \subseteq Nat \ {0} /\ MaxArgs \in Nat

\* MPV_EVENT_*, MPV_FORMAT_*, MPV_END_FILE_REASON_*
EventId ==
    [None |-> 0, Shutdown |-> 1, LogMessage |-> 2, GetPropertyReply |-> 3,
     SetPropertyReply |-> 4, CommandReply |-> 5, StartFile |-> 6, EndFile |-> 7,
     FileLoaded |-> 8, ClientMessage |-> 16, VideoReconfig |-> 17, AudioReconfig |-> 18,
     Seek |-> 20, PlaybackRestart |-> 21, PropertyChange |-> 22, QueueOverflow |-> 24,
     Hook |-> 25]
FormatId == [None |-> 0, String |-> 1, OsdString |-> 2, Flag |-> 3, Int64 |-> 4,
             Double |-> 5, Node |-> 6, NodeArray |-> 7, NodeMap |-> 8, ByteArray |-> 9]
ReasonId == [Eof |-> 0, Stop |-> 2, Quit |-> 3, Error |-> 4, Redirect |-> 5]

Bare == {"Shutdown", "FileLoaded", "VideoReconfig", "AudioReconfig", "Seek",
         "PlaybackRestart", "QueueOverflow"}

ASSUME IdsAssumption ==
    /\ UnknownIds \subseteq Nat \ {EventId[e] : e \in DOMAIN EventId}
    /\ UnknownReasons \subseteq Nat \ {ReasonId[r] : r \in DOMAIN ReasonId}

-----------------------------------------------------------------------------
\* PropertyData, EndFileReason and Event: what the program is told.

PropertyData ==
    [type : {"None"}] \cup [type : {"String", "OsdString"}, text : Texts]
    \cup [type : {"Flag"}, flag : BOOLEAN] \cup [type : {"Int64", "Double"}, number : Numbers]
    \cup [type : {"Node"}, node : Nodes]

Reason == [name : DOMAIN ReasonId] \cup [name : {"Unknown"}, code : UnknownReasons]
Ok == [name |-> "Ok"]
Err(code) == [name |-> "Err", code |-> code]
Error == {Err(-f) : f \in Failures}

Event ==
    [type : Bare] \cup [type : {"Unknown"}, id : UnknownIds]
    \cup [type : {"LogMessage"}, prefix : Texts, level : Texts, text : Texts, logLevel : Numbers]
    \cup [type : {"GetPropertyReply"}, userdata : Numbers, name : Texts, data : PropertyData]
    \cup [type : {"SetPropertyReply"}, userdata : Numbers]
    \cup [type : {"CommandReply"}, userdata : Numbers, node : Nodes]
    \cup [type : {"GetPropertyReply", "SetPropertyReply", "CommandReply"},
          userdata : Numbers, error : Error]
    \cup [type : {"StartFile"}, entry : Numbers]
    \cup {e \in [type : {"EndFile"}, reason : Reason, error : {Ok} \cup Error,
                 entry : Numbers, insert : Numbers, entries : Numbers] :
              e.error # Ok => e.reason.name = "Error"}
    \cup [type : {"ClientMessage"}, args : UNION {[1..n -> Texts] : n \in 0..MaxArgs}]
    \cup [type : {"PropertyChange"}, userdata : Numbers, name : Texts, data : PropertyData]
    \cup [type : {"Hook"}, userdata : Numbers, name : Texts, id : Numbers]

NoEvent == [type |-> "None"]

-----------------------------------------------------------------------------
\* The reads

Null == [field \in {} |-> Fault]
Read(pointer, field) ==
    IF field \in DOMAIN pointer THEN pointer[field] ELSE Fault
IsNull(pointer) == DOMAIN pointer = {}

MakeVersion(major, minor) == major * 65536 + minor
\* Mutant: only the minor numbers are compared.
MinorOnly(api) == api % 65536 >= 108
HasApi108(api) == api >= MakeVersion(1, 108)

Utf8(chars) == IF chars = Garbled THEN Repaired ELSE chars
Lossy(pointer) == IF IsNull(pointer) THEN EmptyText ELSE Utf8(Read(pointer, "chars"))

EndFileReason(raw) ==
    IF \E r \in DOMAIN ReasonId : ReasonId[r] = raw
    THEN [name |-> CHOOSE r \in DOMAIN ReasonId : ReasonId[r] = raw]
    ELSE [name |-> "Unknown", code |-> raw]

DecodeData(prop) ==
    LET format == Read(prop, "format")
        data == Read(prop, "data")
    IN IF IsNull(data) THEN [type |-> "None"]
       ELSE CASE format = FormatId.String -> [type |-> "String", text |-> Lossy(Read(data, "string"))]
              [] format = FormatId.OsdString -> [type |-> "OsdString", text |-> Lossy(Read(data, "string"))]
              [] format = FormatId.Flag -> [type |-> "Flag", flag |-> Read(data, "flag") # 0]
              [] format = FormatId.Int64 -> [type |-> "Int64", number |-> Read(data, "int64")]
              [] format = FormatId.Double -> [type |-> "Double", number |-> Read(data, "double")]
              [] format = FormatId.Node -> [type |-> "Node", node |-> Read(data, "node")]
              [] OTHER -> [type |-> "None"]

\* check(ev.error).map(..)
Checked(ev, type, onSuccess) ==
    IF ev.error >= 0 THEN onSuccess
                     ELSE [type |-> type, userdata |-> ev.userdata, error |-> Err(ev.error)]

\* Mutant: the pointer is taken to be valid.
StartFileRead(data) == [type |-> "StartFile", entry |-> Read(data, "playlist_entry_id")]
StartFile(data) ==
    [type |-> "StartFile",
     entry |-> IF IsNull(data) THEN 0 ELSE Read(data, "playlist_entry_id")]

EndFile(data, api) ==
    LET Playlist(field) == IF HasApi108(api) THEN Read(data, field) ELSE 0
        error == Read(data, "error")
    IN [type |-> "EndFile", reason |-> EndFileReason(Read(data, "reason")),
        error |-> IF error < 0 THEN Err(error) ELSE Ok,
        entry |-> Playlist("playlist_entry_id"), insert |-> Playlist("playlist_insert_id"),
        entries |-> Playlist("playlist_insert_num_entries")]

\* Mutant: `1..num_args`
ArgsFromOne(data) == [i \in 1..Read(data, "num_args") - 1 |-> Lossy(Read(Read(data, "args"), i + 1))]
Args(data) == [i \in 1..Read(data, "num_args") |-> Lossy(Read(Read(data, "args"), i))]

Decode(ev, api) ==
    CASE ev.id = EventId.None -> NoEvent
      [] ev.id = EventId.LogMessage ->
            [type |-> "LogMessage", prefix |-> Lossy(Read(ev.data, "prefix")),
             level |-> Lossy(Read(ev.data, "level")), text |-> Lossy(Read(ev.data, "text")),
             logLevel |-> Read(ev.data, "log_level")]
      [] ev.id = EventId.GetPropertyReply ->
            Checked(ev, "GetPropertyReply",
                    [type |-> "GetPropertyReply", userdata |-> ev.userdata,
                     name |-> Lossy(Read(ev.data, "name")), data |-> DecodeData(ev.data)])
      [] ev.id = EventId.SetPropertyReply ->
            Checked(ev, "SetPropertyReply", [type |-> "SetPropertyReply", userdata |-> ev.userdata])
      [] ev.id = EventId.CommandReply ->
            Checked(ev, "CommandReply", [type |-> "CommandReply", userdata |-> ev.userdata,
                                         node |-> Read(ev.data, "result")])
      [] ev.id = EventId.StartFile -> StartFile(ev.data)
      [] ev.id = EventId.EndFile -> EndFile(ev.data, api)
      [] ev.id = EventId.ClientMessage -> [type |-> "ClientMessage", args |-> Args(ev.data)]
      [] ev.id = EventId.PropertyChange ->
            [type |-> "PropertyChange", userdata |-> ev.userdata,
             name |-> Lossy(Read(ev.data, "name")), data |-> DecodeData(ev.data)]
      [] ev.id = EventId.Hook ->
            [type |-> "Hook", userdata |-> ev.userdata,
             name |-> Lossy(Read(ev.data, "name")), id |-> Read(ev.data, "id")]
      [] \E b \in Bare : EventId[b] = ev.id -> [type |-> CHOOSE b \in Bare : EventId[b] = ev.id]
      [] OTHER -> [type |-> "Unknown", id |-> ev.id]

-----------------------------------------------------------------------------
\* libmpv's side: the structs in which an event may arrive.

\* A C string need not be UTF-8, and lossy takes a null pointer for an empty one.
CStrings(text) ==
    {[chars |-> text]} \cup (IF text = Repaired THEN {[chars |-> Garbled]} ELSE {})
                       \cup (IF text = EmptyText THEN {Null} ELSE {})

\* An unavailable property: the header calls its data "invalid" and also null.
RawData(data) ==
    CASE data.type = "None" -> [format : {FormatId.None}, data : {Null, [stale |-> 0]}]
      [] data.type \in {"String", "OsdString"} ->
            [format : {FormatId[data.type]}, data : [string : CStrings(data.text)]]
      [] data.type = "Flag" ->
            {[format |-> FormatId.Flag, data |-> [flag |-> IF data.flag THEN 1 ELSE 0]]}
      [] data.type = "Int64" -> {[format |-> FormatId.Int64, data |-> [int64 |-> data.number]]}
      [] data.type = "Double" -> {[format |-> FormatId.Double, data |-> [double |-> data.number]]}
      [] data.type = "Node" -> {[format |-> FormatId.Node, data |-> [node |-> data.node]]}

\* Client API 1.108 added the playlist fields, and START_FILE's data with them.
HasPlaylistFields(api) ==
    \/ api \div 65536 > 1
    \/ api \div 65536 = 1 /\ api % 65536 >= 108

Structs(e, api) ==
    CASE e.type = "LogMessage" ->
            [prefix : CStrings(e.prefix), level : CStrings(e.level), text : CStrings(e.text),
             log_level : {e.logLevel}]
      [] e.type \in {"GetPropertyReply", "PropertyChange"} ->
            {[name |-> c, format |-> d.format, data |-> d.data] :
                c \in CStrings(e.name), d \in RawData(e.data)}
      [] e.type = "CommandReply" -> {[result |-> e.node]}
      [] e.type = "StartFile" ->
            IF HasPlaylistFields(api) THEN {[playlist_entry_id |-> e.entry]} ELSE {Null}
      [] e.type = "EndFile" ->
            LET reason == IF e.reason.name = "Unknown" THEN e.reason.code ELSE ReasonId[e.reason.name]
                error == IF e.error = Ok THEN 0 ELSE e.error.code
            IN IF HasPlaylistFields(api)
               THEN {[reason |-> reason, error |-> error, playlist_entry_id |-> e.entry,
                      playlist_insert_id |-> e.insert, playlist_insert_num_entries |-> e.entries]}
               ELSE {[reason |-> reason, error |-> error]}
      [] e.type = "ClientMessage" ->
            {[num_args |-> Len(e.args), args |-> a] :
                a \in {b \in [DOMAIN e.args -> UNION {CStrings(t) : t \in Texts}] :
                           \A i \in DOMAIN b : b[i] \in CStrings(e.args[i])}}
      [] e.type = "Hook" -> [name : CStrings(e.name), id : {e.id}]
      [] OTHER -> {Null}

Failed(e) == e.type # "EndFile" /\ "error" \in DOMAIN e

RawEvents(e, api) ==
    [id : {IF e.type = "Unknown" THEN e.id ELSE EventId[e.type]},
     error : {IF Failed(e) THEN e.error.code ELSE 0},
     userdata : {IF "userdata" \in DOMAIN e THEN e.userdata ELSE 0},
     data : IF Failed(e) THEN {Null} ELSE Structs(e, api)]

-----------------------------------------------------------------------------
VARIABLES
    version,    \* of the libmpv that is linked
    happened,   \* what libmpv has to say
    raw,        \* the struct mpv_wait_event returns
    event,      \* the decoded event
    phase       \* "raw" or "decoded"

vars == <<version, happened, raw, event, phase>>

Init ==
    /\ version \in Versions
    /\ happened = NoEvent /\ raw \in RawEvents(NoEvent, version)
    /\ event = NoEvent /\ phase = "decoded"

\* libmpv fills its event struct; what was decoded from it before is the program's.
Happen(e) ==
    /\ phase = "decoded" /\ phase' = "raw"
    /\ happened' = e /\ raw' \in RawEvents(e, version)
    /\ UNCHANGED <<version, event>>

FromRaw ==
    /\ phase = "raw" /\ phase' = "decoded"
    /\ event' = Decode(raw, version)
    /\ UNCHANGED <<version, happened, raw>>

Next == (\E e \in Event \cup {NoEvent} : Happen(e)) \/ FromRaw

Spec == Init /\ [][Next]_vars

-----------------------------------------------------------------------------
\* Properties

\* "The playlist fields are 0 when the linked libmpv predates client API 1.108"
\* (Event::EndFile); everything else is what happened.
Told(e, api) ==
    IF HasPlaylistFields(api) THEN e
    ELSE CASE e.type = "StartFile" -> [e EXCEPT !.entry = 0]
           [] e.type = "EndFile" -> [e EXCEPT !.entry = 0, !.insert = 0, !.entries = 0]
           [] OTHER -> e

\* The program is told exactly what happened, of whatever libmpv version and in
\* whatever way the header allows it to be written; no read goes past a struct
\* that is shorter than declared, through a null pointer or to data that a failed
\* or unavailable result does not have (Event::from_raw, property_data, lossy).
DecodedAsHappened == phase = "decoded" => event = Told(happened, version)
=============================================================================
