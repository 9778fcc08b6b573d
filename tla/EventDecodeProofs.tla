--------------------------- MODULE EventDecodeProofs ---------------------------
(***************************************************************************)
(* The decode is exact for every event, library version and encoding: one  *)
(* lemma for each read helper, then one case for each kind of event.       *)
(***************************************************************************)
EXTENDS EventDecode, TLAPS

\* The packed version numbers order as (major, minor) pairs do.
LEMMA VersionCompare == ASSUME NEW api \in Nat PROVE HasApi108(api) <=> HasPlaylistFields(api)
BY DEF HasApi108, HasPlaylistFields, MakeVersion

\* lossy gives back every text, however libmpv wrote it.
LEMMA StringExact ==
    ASSUME NEW t \in Texts, NEW c \in CStrings(t)
    PROVE  Lossy(c) = t
<1>1. CASE c = [chars |-> t]
    BY <1>1, DataAssumption DEF Lossy, IsNull, Read, Utf8
<1>2. CASE c = [chars |-> Garbled] /\ t = Repaired
    BY <1>2, DataAssumption DEF Lossy, IsNull, Read, Utf8
<1>3. CASE c = Null /\ t = EmptyText
    BY <1>3, DataAssumption DEF Lossy, IsNull, Null
<1> QED
    BY <1>1, <1>2, <1>3 DEF CStrings


\* property_data reads what the format says and nothing else.
LEMMA DataExact ==
    ASSUME NEW d \in PropertyData, NEW s \in RawData(d), NEW c
    PROVE  DecodeData([name |-> c, format |-> s.format, data |-> s.data]) = d
<1>. DEFINE prop == [name |-> c, format |-> s.format, data |-> s.data]
<1>1. CASE d \in [type : {"None"}]
  <2>1. s.format = 0 /\ (s.data = Null \/ s.data = [stale |-> 0]) /\ d = [type |-> "None"]
      BY <1>1 DEF RawData, FormatId
  <2> QED
      BY <2>1 DEF DecodeData, Read, IsNull, FormatId, Null
<1>2. CASE d \in [type : {"String", "OsdString"}, text : Texts]
  <2>1. PICK t \in CStrings(d.text) : s = [format |-> FormatId[d.type], data |-> [string |-> t]]
      BY <1>2 DEF RawData
  <2>2. Lossy(t) = d.text
      BY <1>2, <2>1, StringExact
  <2>3. CASE d.type = "String"
      BY <1>2, <2>1, <2>2, <2>3 DEF DecodeData, Read, IsNull, FormatId
  <2>4. CASE d.type = "OsdString"
      BY <1>2, <2>1, <2>2, <2>4 DEF DecodeData, Read, IsNull, FormatId
  <2> QED
      BY <1>2, <2>3, <2>4
<1>3. CASE d \in [type : {"Flag"}, flag : BOOLEAN]
    BY <1>3 DEF RawData, DecodeData, Read, IsNull, FormatId
<1>4. CASE d \in [type : {"Int64", "Double"}, number : Numbers]
    BY <1>4 DEF RawData, DecodeData, Read, IsNull, FormatId
<1>5. CASE d \in [type : {"Node"}, node : Nodes]
    BY <1>5 DEF RawData, DecodeData, Read, IsNull, FormatId
<1> QED
    BY <1>1, <1>2, <1>3, <1>4, <1>5 DEF PropertyData

\* EndFileReason::from_raw inverts the constants and keeps what it does not know.
LEMMA ReasonExact ==
    /\ \A r \in DOMAIN ReasonId : EndFileReason(ReasonId[r]) = [name |-> r]
    /\ \A code \in UnknownReasons : EndFileReason(code) = [name |-> "Unknown", code |-> code]
<1>1. ASSUME NEW r \in DOMAIN ReasonId PROVE EndFileReason(ReasonId[r]) = [name |-> r]
  <2>1. \A q \in DOMAIN ReasonId : ReasonId[q] = ReasonId[r] => q = r
      BY DEF ReasonId
  <2> QED
      BY <2>1 DEF EndFileReason
<1>2. ASSUME NEW code \in UnknownReasons PROVE EndFileReason(code) = [name |-> "Unknown", code |-> code]
    BY IdsAssumption DEF EndFileReason
<1> QED
    BY <1>1, <1>2

-----------------------------------------------------------------------------
\* Every kind of event, in every encoding, for every library version.
LEMMA DecodeExact ==
    ASSUME NEW api \in Versions, NEW e \in Event \cup {NoEvent}, NEW r \in RawEvents(e, api)
    PROVE  Decode(r, api) = Told(e, api)
<1>. USE DEF EventId
<1>v. HasApi108(api) <=> HasPlaylistFields(api)
    BY VersionCompare, DataAssumption
<1>r. r = [id |-> r.id, error |-> r.error, userdata |-> r.userdata, data |-> r.data]
    BY DEF RawEvents
<1>0. CASE e = NoEvent
    BY <1>0 DEF NoEvent, RawEvents, Decode, Bare, Told
<1>1. CASE e \in [type : Bare]
  <2>1. e = [type |-> e.type] /\ e.type \in Bare
      BY <1>1
  <2>2. r.id = EventId[e.type] /\ Told(e, api) = e
      BY <2>1 DEF RawEvents, Told, Bare
  <2>3. \A b \in Bare : EventId[b] = r.id => b = e.type
      BY <2>1, <2>2 DEF Bare
  <2>4. Decode(r, api) = [type |-> CHOOSE b \in Bare : EventId[b] = r.id]
      BY <2>1, <2>2 DEF Decode, Bare
  <2> QED
      BY <2>1, <2>2, <2>3, <2>4
<1>2. CASE e \in [type : {"Unknown"}, id : UnknownIds]
  <2>1. r.id = e.id /\ Told(e, api) = e /\ e = [type |-> "Unknown", id |-> e.id]
      BY <1>2 DEF RawEvents, Told
  <2>2. \A k \in DOMAIN EventId : r.id # EventId[k]
      BY <1>2, <2>1, IdsAssumption
  <2> QED
      BY <2>1, <2>2 DEF Decode, Bare
<1>3. CASE e \in [type : {"LogMessage"}, prefix : Texts, level : Texts, text : Texts, logLevel : Numbers]
  <2>1. /\ r.id = 2 /\ Told(e, api) = e
        /\ r.data \in [prefix : CStrings(e.prefix), level : CStrings(e.level),
                       text : CStrings(e.text), log_level : {e.logLevel}]
      BY <1>3 DEF RawEvents, Told, Structs, Failed
  <2>2. /\ Read(r.data, "log_level") = e.logLevel /\ Lossy(Read(r.data, "prefix")) = e.prefix
        /\ Lossy(Read(r.data, "level")) = e.level /\ Lossy(Read(r.data, "text")) = e.text
      BY <1>3, <2>1, StringExact DEF Read
  <2> QED
      BY <1>3, <2>1, <2>2 DEF Decode, Bare
<1>4. CASE e \in [type : {"GetPropertyReply", "PropertyChange"},
                  userdata : Numbers, name : Texts, data : PropertyData]
  <2>1. PICK c \in CStrings(e.name), d \in RawData(e.data) :
            r.data = [name |-> c, format |-> d.format, data |-> d.data]
      BY <1>4 DEF RawEvents, Structs, Failed
  <2>2. r.id = EventId[e.type] /\ r.error = 0 /\ r.userdata = e.userdata /\ Told(e, api) = e
      BY <1>4 DEF RawEvents, Told, Failed
  <2>3. Lossy(Read(r.data, "name")) = e.name /\ DecodeData(r.data) = e.data
      BY <1>4, <2>1, StringExact, DataExact DEF Read
  <2> QED
      BY <1>4, <2>2, <2>3 DEF Decode, Bare, Checked
<1>5. CASE e \in [type : {"SetPropertyReply"}, userdata : Numbers]
    BY <1>5 DEF RawEvents, Told, Failed, Decode, Bare, Checked
<1>6. CASE e \in [type : {"CommandReply"}, userdata : Numbers, node : Nodes]
  <2>1. /\ r.id = 5 /\ r.error = 0 /\ r.userdata = e.userdata /\ Told(e, api) = e
        /\ r.data = [result |-> e.node]
      BY <1>6 DEF RawEvents, Told, Failed, Structs
  <2> QED
      BY <1>6, <2>1 DEF Decode, Bare, Checked, Read
<1>7. CASE e \in [type : {"GetPropertyReply", "SetPropertyReply", "CommandReply"},
                  userdata : Numbers, error : Error]
  <2>1. /\ r.id = EventId[e.type] /\ r.error = e.error.code /\ r.userdata = e.userdata
        /\ Told(e, api) = e
      BY <1>7 DEF RawEvents, Told, Failed
  <2>2. e.error = Err(r.error) /\ r.error \in Int /\ r.error < 0
      BY <1>7, <2>1, DataAssumption DEF Error, Err
  <2>3. e = [type |-> e.type, userdata |-> r.userdata, error |-> Err(r.error)]
      BY <1>7, <2>1, <2>2
  <2>4. \A onSuccess : Checked(r, e.type, onSuccess) = e
      BY <2>2, <2>3 DEF Checked
  <2>5. CASE e.type = "GetPropertyReply"
      BY <2>1, <2>4, <2>5 DEF Decode, Bare
  <2>6. CASE e.type = "SetPropertyReply"
      BY <2>1, <2>4, <2>6 DEF Decode, Bare
  <2>7. CASE e.type = "CommandReply"
      BY <2>1, <2>4, <2>7 DEF Decode, Bare
  <2> QED
      BY <1>7, <2>5, <2>6, <2>7
<1>8. CASE e \in [type : {"StartFile"}, entry : Numbers]
  <2>1. /\ r.id = 6 /\ e = [type |-> "StartFile", entry |-> e.entry]
        /\ r.data = IF HasPlaylistFields(api) THEN [playlist_entry_id |-> e.entry] ELSE Null
      BY <1>8 DEF RawEvents, Structs, Failed
  <2>2. Decode(r, api) = StartFile(r.data)
      BY <2>1 DEF Decode, Bare
  <2>3. CASE HasPlaylistFields(api)
      BY <2>1, <2>2, <2>3 DEF StartFile, Read, IsNull, Told
  <2>4. CASE ~HasPlaylistFields(api)
    <3>1. StartFile(r.data) = [type |-> "StartFile", entry |-> 0]
        BY <2>1, <2>4 DEF StartFile, IsNull, Null
    <3> QED
        BY <2>1, <2>2, <2>4, <3>1 DEF Told
  <2> QED
      BY <2>3, <2>4
<1>9. CASE e \in [type : {"EndFile"}, reason : Reason, error : {Ok} \cup Error,
                  entry : Numbers, insert : Numbers, entries : Numbers]
  <2>. DEFINE reason == IF e.reason.name = "Unknown" THEN e.reason.code ELSE ReasonId[e.reason.name]
              error == IF e.error = Ok THEN 0 ELSE e.error.code
  <2>1. /\ r.id = 7
        /\ r.data = IF HasPlaylistFields(api)
                    THEN [reason |-> reason, error |-> error, playlist_entry_id |-> e.entry,
                          playlist_insert_id |-> e.insert, playlist_insert_num_entries |-> e.entries]
                    ELSE [reason |-> reason, error |-> error]
      BY <1>9 DEF RawEvents, Structs, Failed
  <2>2. EndFileReason(reason) = e.reason
    <3>1. CASE e.reason \in [name : DOMAIN ReasonId]
      <4>1. e.reason.name # "Unknown" /\ e.reason = [name |-> e.reason.name]
          BY <3>1 DEF ReasonId
      <4> QED
          BY <3>1, <4>1, ReasonExact
    <3>2. CASE e.reason \in [name : {"Unknown"}, code : UnknownReasons]
        BY <3>2, ReasonExact
    <3> QED
        BY <1>9, <3>1, <3>2 DEF Reason
  <2>3. (IF error < 0 THEN Err(error) ELSE Ok) = e.error
    <3>1. CASE e.error = Ok
        BY <3>1
    <3>2. CASE e.error \in Error
      <4>1. PICK f \in Failures : e.error = Err(-f)
          BY <3>2 DEF Error
      <4>2. e.error # Ok /\ e.error.code = -f /\ -f < 0
          BY <4>1, DataAssumption DEF Err, Ok
      <4> QED
          BY <4>1, <4>2
    <3> QED
        BY <1>9, <3>1, <3>2
  <2>4. Read(r.data, "reason") = reason /\ Read(r.data, "error") = error
      BY <2>1 DEF Read
  <2>5. CASE HasPlaylistFields(api)
    <3>1. /\ Read(r.data, "playlist_entry_id") = e.entry
          /\ Read(r.data, "playlist_insert_id") = e.insert
          /\ Read(r.data, "playlist_insert_num_entries") = e.entries
        BY <2>1, <2>5 DEF Read
    <3>2. Decode(r, api) = EndFile(r.data, api)
        BY <2>1 DEF Decode, Bare
    <3>3. EndFile(r.data, api) = [type |-> "EndFile", reason |-> e.reason, error |-> e.error,
                entry |-> e.entry, insert |-> e.insert, entries |-> e.entries]
        BY <1>v, <2>2, <2>3, <2>4, <2>5, <3>1 DEF EndFile
    <3> QED
        BY <1>9, <2>5, <3>2, <3>3 DEF Told
  <2>6. CASE ~HasPlaylistFields(api)
    <3>1. Decode(r, api) = EndFile(r.data, api)
        BY <2>1 DEF Decode, Bare
    <3>2. EndFile(r.data, api) = [type |-> "EndFile", reason |-> e.reason, error |-> e.error,
                entry |-> 0, insert |-> 0, entries |-> 0]
        BY <1>v, <2>2, <2>3, <2>4, <2>6 DEF EndFile
    <3> QED
        BY <1>9, <2>6, <3>1, <3>2 DEF Told
  <2> QED
      BY <2>5, <2>6
<1>10. CASE e \in [type : {"ClientMessage"}, args : UNION {[1..n -> Texts] : n \in 0..MaxArgs}]
  <2>1. PICK n \in 0..MaxArgs : e.args \in [1..n -> Texts]
      BY <1>10
  <2>2. PICK a : /\ r.data = [num_args |-> Len(e.args), args |-> a]
                 /\ DOMAIN a = DOMAIN e.args
                 /\ \A i \in DOMAIN a : a[i] \in CStrings(e.args[i])
      BY <1>10 DEF RawEvents, Structs, Failed
  <2>3. Len(e.args) = n /\ DOMAIN e.args = 1..n
      BY <2>1, DataAssumption
  <2>4. Args(r.data) = [i \in 1..n |-> Lossy(a[i])]
      BY <2>2, <2>3 DEF Args, Read
  <2>5. \A i \in 1..n : Lossy(a[i]) = e.args[i]
      BY <2>1, <2>2, <2>3, StringExact
  <2>6. Args(r.data) = e.args
      BY <2>1, <2>4, <2>5
  <2>7. r.id = 16 /\ Told(e, api) = e
      BY <1>10 DEF RawEvents, Told
  <2> QED
      BY <1>10, <2>6, <2>7 DEF Decode, Bare
<1>11. CASE e \in [type : {"Hook"}, userdata : Numbers, name : Texts, id : Numbers]
  <2>1. /\ r.id = 25 /\ r.userdata = e.userdata /\ Told(e, api) = e
        /\ r.data \in [name : CStrings(e.name), id : {e.id}]
      BY <1>11 DEF RawEvents, Told, Structs, Failed
  <2>2. Lossy(Read(r.data, "name")) = e.name /\ Read(r.data, "id") = e.id
      BY <1>11, <2>1, StringExact DEF Read
  <2> QED
      BY <1>11, <2>1, <2>2 DEF Decode, Bare
<1> QED
    BY <1>0, <1>1, <1>2, <1>3, <1>4, <1>5, <1>6, <1>7, <1>8, <1>9, <1>10, <1>11 DEF Event

-----------------------------------------------------------------------------
\* Every event is told as it happened, for every libmpv version, every encoding
\* the header allows and every text, number and argument list (Event::from_raw).
THEOREM EventsExact == Spec => []DecodedAsHappened
<1> DEFINE IInv == /\ version \in Versions /\ happened \in Event \cup {NoEvent}
                   /\ raw \in RawEvents(happened, version)
                   /\ DecodedAsHappened
<1>1. Init => IInv
    BY DEF Init, DecodedAsHappened, Told, NoEvent
<1>2. IInv /\ [Next]_vars => IInv'
  <2> SUFFICES ASSUME IInv, [Next]_vars PROVE IInv'
      OBVIOUS
  <2>1. ASSUME NEW e \in Event \cup {NoEvent}, Happen(e) PROVE IInv'
      BY <2>1 DEF Happen, DecodedAsHappened
  <2>2. CASE FromRaw
    <3>1. Decode(raw, version) = Told(happened, version)
        BY DecodeExact
    <3> QED
        BY <2>2, <3>1 DEF FromRaw, DecodedAsHappened
  <2>3. CASE UNCHANGED vars
      BY <2>3 DEF vars, DecodedAsHappened
  <2> QED
      BY <2>1, <2>2, <2>3 DEF Next
<1> QED
    BY <1>1, <1>2, PTL DEF Spec
=============================================================================
