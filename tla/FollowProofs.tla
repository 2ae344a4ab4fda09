----------------------------- MODULE FollowProofs -----------------------------
(***************************************************************************)
(* Following one file, for any sizes, any number of versions, connections  *)
(* and clicks: the window shows the bytes of one version, what is missing  *)
(* at its end is announced, and one block at a time is on its way.         *)
(***************************************************************************)
EXTENDS FollowSafety, SequenceTheorems, FiniteSetTheorems, TLAPS

Lengths == 0..MaxLen
SubscribeMessage ==
    [type : {"subscribe"}, rev : Nat, generation : Nat, offset : Lengths]
AckMessage == [type : {"ack"}, rev : Nat, generation : Nat, offset : Lengths]
ServerMessage == SubscribeMessage \cup AckMessage \cup [type : {"unsubscribe"}]
ChunkMessage ==
    {m \in [type : {"chunk"}, rev : Nat, generation : Nat, start : Lengths, bytes : Bytes] :
        End(m) <= MaxLen}
NoticeMessage == [type : Notices \cup {"reset", "file-renamed"}, rev : Nat]
ClientMessage == ChunkMessage \cup NoticeMessage \cup [type : {"error"}]

Codes == {"none", "ok", "NOT_FOUND", "GENERATION_CHANGED", "CURSOR_INVALID", "LIMIT"}
Replies ==
    {r \in [code : Codes, generation : Nat, start : Lengths, bytes : Bytes] : End(r) <= MaxLen}
Requests ==
    [kind : {"snapshot", "older"}, rev : Nat, before : Lengths, generation : Nat, reply : Replies]
Windows == {w \in [generation : Nat, start : Lengths, bytes : Bytes] :
               End(w) <= MaxLen /\ Len(w.bytes) <= MaxBytes}
Steps == {"none", "opened", "compared", "recorded"}
JobFields ==
    [kind : {"none", "poll", "content"}, step : Steps, flow : 0..Connections, renamed : BOOLEAN,
     ino : Nat, size : Lengths, version : Nat, changed : BOOLEAN, start : Lengths, end : Lengths]
Jobs == {j \in JobFields : j.start <= j.end /\ j.end <= j.size}

Sights == [generation : Nat, ino : Nat, size : Lengths, anchor : Bytes, torn : BOOLEAN]

\* The types of the file and of what the server knows of it.
DiskTyped ==
    /\ file \in [at : {"active", "final", "gone"}, ino : Nat \ {0}, bytes : Bytes]
    /\ Len(file.bytes) <= MaxLen /\ file.ino <= version /\ version \in 1..MaxVersions
    /\ file.at = "gone" => file.bytes = <<>>
    /\ \A n \in DOMAIN file.bytes : file.bytes[n] <= version
    /\ node \in {"active", "final"} /\ orphan \in Bytes
    /\ seen \in Sights /\ Len(seen.anchor) <= Smaller(Anchor, seen.size)

\* The types of the session, the flows and the connections.
ServerTyped ==
    /\ selection \in [rev : Nat, generation : Nat, offset : Lengths]
    /\ ack \in Lengths /\ unavailable \in Nat /\ cancel \in Nat
    /\ flow \in [Flows -> [pc : Where, generation : Nat]]
    /\ job \in Jobs
    /\ toServer \in [Flows -> Seq(ServerMessage)]
    /\ toClient \in [Flows -> Seq(ClientMessage)]
    /\ link \in [Flows -> {"none", "open", "cut"}]

\* The types of the store.
StoreTyped ==
    /\ socket \in 0..Connections /\ revision \in Nat /\ cursor \in Lengths
    /\ window \in Windows /\ requests \in Seq(Requests)
    /\ following \in BOOLEAN /\ newer \in BOOLEAN
    /\ status \in {"choose", "loading", "live", "failed", "unavailable", "resync", "reconnecting"}
    /\ job.kind = "content" => Pending

\* What the last read saw is of this file or of an earlier one, never of a
\* later: a change, once it has happened, stays visible until the next read.
\* Only a read of a file cut off or removed under it may see something else.
SeenSound ==
    /\ seen.generation = 0 => seen.ino = 0
    /\ seen.ino <= version /\ (file.at = "gone" => seen.ino < version)
    /\ ~seen.torn =>
          /\ Len(seen.anchor) = Smaller(Anchor, seen.size)
          /\ seen.size > 0 =>
                /\ seen.anchor[Len(seen.anchor)] <= version
                /\ Len(file.bytes) < seen.size => seen.anchor[Len(seen.anchor)] < version

\* What the last read saw may be out of date, or wrong.
Doubt == Changed \/ seen.torn

\* The read that is under way: as long as the version it has opened is the
\* last, it leads to the file, and a file found unchanged has not changed.
JobSound ==
    /\ job.step = "recorded" => seen.size = job.size /\ seen.generation # 0
    /\ job.step \in {"opened", "compared"} =>
          /\ job.ino # 0 /\ job.ino <= job.version /\ job.version <= version
          /\ job.version = version =>
                file.at # "gone" /\ file.ino = job.ino /\ job.size <= Len(file.bytes)
    /\ job.step = "compared" =>
          /\ seen.generation = 0 => job.changed
          /\ ~job.changed => seen.size <= job.size
          /\ ~job.changed /\ ~seen.torn /\ job.version = version => ~Changed

\* The bytes `x` that were read from the file are still the file's, unless it
\* has been seen to change or will be at the next read.
ReadSound(x) ==
    /\ x.generation <= seen.generation
    /\ x.generation = seen.generation /\ ~Doubt =>
          End(x) <= seen.size /\ Holds(file.bytes, x)

RepliesSound == \A n \in DOMAIN requests : ReadSound(requests[n].reply)
BlocksSound ==
    \A c \in Flows : \A n \in DOMAIN toClient[c] :
       toClient[c][n].type = "chunk" => ReadSound(toClient[c][n])

\* The window ends where the store stopped, or the user is told.
NewerSound ==
    window.generation # 0 => End(window) <= cursor /\ (End(window) # cursor => newer)

ReadInv ==
    /\ DiskTyped /\ ServerTyped /\ StoreTyped
    /\ SeenSound /\ JobSound /\ ReadSound(window) /\ RepliesSound /\ BlocksSound /\ NewerSound
-----------------------------------------------------------------------------
(* Bytes *)

USE SizesAssumption, BoundsAssumption DEF Lengths

\* Two sequences with the same elements are the same.
LEMMA SameSequence ==
  ASSUME NEW S, NEW s \in Seq(S), NEW t \in Seq(S), Len(s) = Len(t),
         \A n \in 1..Len(s) : s[n] = t[n]
  PROVE  s = t
OBVIOUS

\* A segment of a file: its length and its bytes.
LEMMA SegmentIs ==
  ASSUME NEW bytes \in Bytes, NEW end \in 0..Len(bytes), NEW start \in 0..end
  PROVE  /\ Segment(bytes, start, end) \in Bytes
         /\ Len(Segment(bytes, start, end)) = end - start
         /\ \A n \in 1..end - start : Segment(bytes, start, end)[n] = bytes[start + n]
<1>1. Len(bytes) \in Nat /\ start \in Nat /\ end \in Nat /\ start <= end /\ end <= Len(bytes)
  BY DEF Bytes
<1>2. \A i \in start + 1..end : bytes[i] \in 1..MaxVersions
  BY <1>1 DEF Bytes
<1>3. /\ SubSeq(bytes, start + 1, end) \in Seq(1..MaxVersions)
      /\ Len(SubSeq(bytes, start + 1, end)) = IF start + 1 <= end THEN end - (start + 1) + 1 ELSE 0
      /\ \A n \in 1..end - (start + 1) + 1 :
            SubSeq(bytes, start + 1, end)[n] = bytes[start + 1 + n - 1]
  BY <1>1, <1>2, SubSeqProperties
<1> QED
  BY <1>1, <1>3 DEF Segment, Bytes

\* Files that agree up to a point have the same segments up to there.
LEMMA SameSegment ==
  ASSUME NEW a \in Bytes, NEW b \in Bytes, NEW end \in Nat, NEW start \in 0..end,
         end <= Len(a), end <= Len(b), \A n \in 1..end : a[n] = b[n]
  PROVE  Segment(a, start, end) = Segment(b, start, end)
<1>1. Len(a) \in Nat /\ Len(b) \in Nat /\ end \in 0..Len(a) /\ end \in 0..Len(b)
  BY DEF Bytes
<1>2. /\ Segment(a, start, end) \in Bytes /\ Segment(b, start, end) \in Bytes
      /\ Len(Segment(a, start, end)) = end - start /\ Len(Segment(b, start, end)) = end - start
      /\ \A n \in 1..end - start : Segment(a, start, end)[n] = a[start + n]
      /\ \A n \in 1..end - start : Segment(b, start, end)[n] = b[start + n]
  BY <1>1, SegmentIs
<1>3. \A n \in 1..end - start : start + n \in 1..end
  OBVIOUS
<1> QED
  BY <1>2, <1>3, SameSequence DEF Bytes

\* The anchor of a file of `size` bytes ends with its last byte.
LEMMA AnchorIs ==
  ASSUME NEW bytes \in Bytes, NEW size \in 0..Len(bytes)
  PROVE  /\ LastBytes(bytes, size) \in Bytes
         /\ Len(LastBytes(bytes, size)) = Smaller(Anchor, size)
         /\ size > 0 => LastBytes(bytes, size)[Len(LastBytes(bytes, size))] = bytes[size]
<1>1. Len(bytes) \in Nat /\ size \in Nat /\ Anchor \in Nat /\ Anchor > 0
  BY DEF Bytes
<1>2. /\ Minus(size, Anchor) \in 0..size /\ size - Minus(size, Anchor) = Smaller(Anchor, size)
      /\ Smaller(size, Len(bytes)) = size
  BY <1>1 DEF Minus, Smaller
<1>3. /\ LastBytes(bytes, size) \in Bytes
      /\ Len(LastBytes(bytes, size)) = size - Minus(size, Anchor)
      /\ \A n \in 1..size - Minus(size, Anchor) :
            LastBytes(bytes, size)[n] = bytes[Minus(size, Anchor) + n]
  <2>1. PICK start : start = Minus(size, Anchor)
    OBVIOUS
  <2>2. start \in 0..size /\ size \in 0..Len(bytes) /\ LastBytes(bytes, size) = Segment(bytes, start, size)
    BY <1>1, <1>2, <2>1 DEF LastBytes
  <2> QED
    BY <2>1, <2>2, SegmentIs
<1>4. size > 0 => size - Minus(size, Anchor) \in 1..size - Minus(size, Anchor)
  BY <1>1 DEF Minus
<1>5. Minus(size, Anchor) + (size - Minus(size, Anchor)) = size
  BY <1>1, <1>2
<1> QED
  BY <1>2, <1>3, <1>4, <1>5

\* Whatever the file has become, no more is read of it.
LEMMA AnchorTyped ==
  ASSUME NEW bytes \in Bytes, NEW size \in Nat
  PROVE  LastBytes(bytes, size) \in Bytes /\ Len(LastBytes(bytes, size)) <= Smaller(Anchor, size)
<1>1. Len(bytes) \in Nat /\ Anchor \in Nat
  BY DEF Bytes
<1>2. PICK start, end : start = Minus(size, Anchor) /\ end = Smaller(size, Len(bytes))
  OBVIOUS
<1>3. /\ start \in Nat /\ end \in 0..Len(bytes) /\ end <= size /\ end - start <= Smaller(Anchor, size)
      /\ Smaller(Anchor, size) >= 0
  BY <1>1, <1>2 DEF Minus, Smaller
<1>4. CASE start <= end
  <2>1. start \in 0..end
    BY <1>1, <1>3, <1>4
  <2> QED
    BY <1>2, <1>3, <2>1, SegmentIs DEF LastBytes
<1>5. CASE ~(start <= end)
  <2>1. SubSeq(bytes, start + 1, end) = <<>>
    BY <1>1, <1>3, <1>5, SubSeqProperties
  <2>2. LastBytes(bytes, size) = <<>> /\ <<>> \in Bytes
    BY <1>2, <2>1 DEF LastBytes, Segment, Bytes
  <2> QED
    BY <1>3, <2>2
<1> QED
  BY <1>4, <1>5

\* What was read is still there when the file agrees up to what was seen.
LEMMA HoldsOn ==
  ASSUME NEW a \in Bytes, NEW b \in Bytes, NEW size \in Nat, size <= Len(a), size <= Len(b),
         \A n \in 1..size : a[n] = b[n], NEW x, x.start \in Nat, x.bytes \in Bytes,
         End(x) <= size, Holds(a, x)
  PROVE  Holds(b, x)
<1>1. Len(a) \in Nat /\ Len(b) \in Nat /\ Len(x.bytes) \in Nat
  BY DEF Bytes
<1>2. PICK start, end : start = x.start /\ end = End(x)
  OBVIOUS
<1>3. end \in Nat /\ start \in 0..end
  BY SMTT(30), <1>1, <1>2 DEF End
<1>4. end <= Len(a) /\ end <= Len(b) /\ \A n \in 1..end : a[n] = b[n]
  BY SMTT(30), <1>1, <1>2, <1>3
<1>5. Segment(a, start, end) = Segment(b, start, end)
  BY <1>3, <1>4, SameSegment
<1> QED
  BY <1>2, <1>4, <1>5 DEF Holds
-----------------------------------------------------------------------------
(* The file and the reads *)

\* The byte of the file under a byte of the anchor.
LEMMA AnchorPlace ==
  ASSUME DiskTyped, NEW n \in DOMAIN seen.anchor
  PROVE  /\ Minus(seen.size, Anchor) + n \in 1..seen.size
         /\ n \in 1..Len(seen.anchor) /\ Len(seen.anchor) \in Nat
<1>1. /\ seen.size \in Nat /\ Anchor \in Nat /\ Len(seen.anchor) \in Nat
      /\ n \in 1..Len(seen.anchor) /\ Len(seen.anchor) <= Smaller(Anchor, seen.size)
  <2>1. /\ seen.size \in Nat /\ seen.anchor \in Bytes
        /\ Len(seen.anchor) <= Smaller(Anchor, seen.size)
    BY DEF DiskTyped, Sights
  <2>2. Len(seen.anchor) \in Nat /\ DOMAIN seen.anchor = 1..Len(seen.anchor)
    BY <2>1 DEF Bytes
  <2> QED
    BY <2>1, <2>2
<1>2. PICK size \in Nat, length \in Nat : size = seen.size /\ length = Len(seen.anchor)
  BY <1>1
<1>3. n \in 1..length /\ (Anchor < size => length <= Anchor) /\ (~(Anchor < size) => length <= size)
  BY <1>1, <1>2 DEF Smaller
<1>4. Minus(size, Anchor) + n \in 1..size
  <2>1. CASE size > Anchor
    BY SMTT(30), <1>1, <1>3, <2>1 DEF Minus
  <2>2. CASE ~(size > Anchor)
    <3>1. length <= size
      BY SMTT(30), <1>1, <1>3, <2>2
    <3> QED
      BY SMTT(30), <1>1, <1>3, <2>2, <3>1 DEF Minus
  <2> QED
    BY <2>1, <2>2
<1> QED
  BY <1>1, <1>2, <1>4

\* A file that has not changed has the anchor, up to what was seen of it.
LEMMA SameFile ==
  ASSUME DiskTyped, DiskTyped', seen' = seen, file'.ino = file.ino,
         seen.size <= Len(file.bytes), seen.size <= Len(file'.bytes),
         \A n \in 1..seen.size : file.bytes[n] = file'.bytes[n]
  PROVE  Changed' <=> Changed
<1>1. /\ file.bytes \in Bytes /\ file'.bytes \in Bytes /\ seen.size \in Nat
      /\ Len(file.bytes) \in Nat /\ Len(file'.bytes) \in Nat
  <2>1. file.bytes \in Bytes /\ file'.bytes \in Bytes
    BY DEF DiskTyped
  <2>2. seen.size \in Nat
    BY DEF DiskTyped, Sights
  <2> QED
    BY <2>1, <2>2 DEF Bytes
<1>2. ~(Len(file.bytes) < seen.size) /\ ~(Len(file'.bytes) < seen.size)
  BY <1>1
<1>3. ASSUME NEW n \in DOMAIN seen.anchor, NEW at, at = Minus(seen.size, Anchor) + n
      PROVE  /\ ~(at > Len(file.bytes)) /\ ~(at > Len(file'.bytes))
             /\ file.bytes[at] = file'.bytes[at]
  <2>1. at \in 1..seen.size
    BY <1>3, AnchorPlace
  <2> QED
    BY <1>1, <2>1
<1> QED
  BY <1>2, <1>3 DEF Changed, Differs

\* What has been read.
Readings == {x \in [generation : Nat, start : Lengths, bytes : Bytes] : End(x) <= MaxLen}

\* The file's own steps keep its types.
LEMMA FileTyped == ASSUME DiskTyped, FileStep PROVE DiskTyped'
<1>1. /\ file.bytes \in Bytes /\ Len(file.bytes) \in Nat /\ version \in Nat /\ MaxLen \in Nat
      /\ MaxVersions \in Nat /\ DOMAIN file.bytes = 1..Len(file.bytes)
  <2>1. file.bytes \in Bytes /\ version \in 1..MaxVersions
    BY DEF DiskTyped
  <2>2. MaxLen \in Nat /\ MaxVersions \in Nat
    OBVIOUS
  <2>3. Len(file.bytes) \in Nat /\ DOMAIN file.bytes = 1..Len(file.bytes)
    BY <2>1 DEF Bytes
  <2> QED
    BY <2>1, <2>2, <2>3
<1> DEFINE Kinds == [at : {"active", "final", "gone"}, ino : Nat \ {0}, bytes : Bytes]
<1>2. /\ node' = node /\ seen' = seen /\ orphan' \in Bytes
  <2>1. orphan' = orphan \/ orphan' = file.bytes
    BY DEF FileStep, Write, Finalise, Truncate, Remove, Recreate
  <2> QED
    BY <1>1, <2>1 DEF FileStep, rootVars, DiskTyped
<1>3. CASE Write
  <2>1. /\ file' = [file EXCEPT !.bytes = Append(@, version)] /\ version' = version
        /\ Len(file.bytes) < MaxLen /\ file.at # "gone"
    BY <1>3 DEF Write
  <2>2. /\ Append(file.bytes, version) \in Bytes
        /\ Len(Append(file.bytes, version)) = Len(file.bytes) + 1
        /\ \A n \in 1..Len(file.bytes) + 1 :
              Append(file.bytes, version)[n] = IF n <= Len(file.bytes) THEN file.bytes[n] ELSE version
    BY SMTT(30), <1>1 DEF DiskTyped, Bytes
  <2>3. \A n \in 1..Len(file.bytes) + 1 : Append(file.bytes, version)[n] <= version
    BY SMTT(30), <1>1, <2>2 DEF DiskTyped
  <2>4. file'.bytes = Append(file.bytes, version) /\ file'.at = file.at /\ file'.ino = file.ino
        /\ file' \in Kinds
    BY <2>1, <2>2 DEF DiskTyped
  <2>5. DOMAIN file'.bytes = 1..Len(file.bytes) + 1 /\ Len(file'.bytes) <= MaxLen
    BY <1>1, <2>1, <2>2, <2>4 DEF Bytes
  <2>6. \A n \in DOMAIN file'.bytes : file'.bytes[n] <= version'
    BY <2>1, <2>3, <2>4, <2>5
  <2> QED
    BY <1>2, <2>1, <2>4, <2>5, <2>6 DEF DiskTyped
<1>4. CASE Finalise
  BY <1>2, <1>4 DEF Finalise, DiskTyped
<1>5. ASSUME NEW length \in 0..MaxLen, Truncate(length) PROVE DiskTyped'
  <2>1. /\ file' = [file EXCEPT !.bytes = Segment(@, 0, length)] /\ version' = version + 1
        /\ length < Len(file.bytes) /\ version < MaxVersions /\ file.at # "gone"
    BY <1>5 DEF Truncate
  <2>2. /\ Segment(file.bytes, 0, length) \in Bytes /\ Len(Segment(file.bytes, 0, length)) = length
        /\ \A n \in 1..length : Segment(file.bytes, 0, length)[n] = file.bytes[n]
    <3>1. length \in 0..Len(file.bytes) /\ 0 \in 0..length /\ length - 0 = length
      BY <1>1, <2>1
    <3>2. \A n \in 1..length - 0 : Segment(file.bytes, 0, length)[n] = file.bytes[0 + n]
      BY <1>1, <3>1, SegmentIs
    <3>3. /\ Segment(file.bytes, 0, length) \in Bytes
          /\ Len(Segment(file.bytes, 0, length)) = length - 0
      BY <1>1, <3>1, SegmentIs
    <3> QED
      BY <3>1, <3>2, <3>3
  <2>3. file'.bytes = Segment(file.bytes, 0, length) /\ file'.at = file.at /\ file'.ino = file.ino
        /\ file' \in Kinds
    BY <2>1, <2>2 DEF DiskTyped
  <2>4. DOMAIN file'.bytes = 1..length /\ Len(file'.bytes) <= MaxLen
    BY <2>2, <2>3 DEF Bytes
  <2>5. \A n \in 1..length : n \in DOMAIN file.bytes /\ file.bytes[n] <= version /\ file.bytes[n] \in Nat
    <3>1. \A n \in 1..length : n \in DOMAIN file.bytes
      BY <1>1, <2>1
    <3>2. \A n \in DOMAIN file.bytes : file.bytes[n] \in 1..MaxVersions
      BY SMTT(30), <1>1 DEF Bytes
    <3> QED
      BY SMTT(30), <3>1, <3>2 DEF DiskTyped
  <2>6. \A n \in DOMAIN file'.bytes : file'.bytes[n] <= version'
    <3> SUFFICES ASSUME NEW n \in 1..length PROVE file'.bytes[n] <= version'
      BY <2>4
    <3>1. file'.bytes[n] = file.bytes[n] /\ file.bytes[n] \in Nat /\ file.bytes[n] <= version
      BY <2>2, <2>3, <2>5
    <3> QED
      BY SMTT(30), <1>1, <2>1, <3>1
  <2>7. version' \in 1..MaxVersions /\ file'.ino <= version'
    BY SMTT(30), <1>1, <2>1, <2>3 DEF DiskTyped
  <2> QED
    BY <1>2, <2>1, <2>3, <2>4, <2>6, <2>7 DEF DiskTyped
<1>6. CASE Remove
  <2>1. /\ file' = [file EXCEPT !.at = "gone", !.bytes = <<>>] /\ version' = version + 1
        /\ version < MaxVersions
    BY <1>6 DEF Remove
  <2>2. file'.bytes = <<>> /\ file'.at = "gone" /\ file'.ino = file.ino /\ <<>> \in Bytes
    BY <2>1 DEF DiskTyped, Bytes
  <2>3. version' \in 1..MaxVersions /\ file'.ino <= version' /\ file' \in Kinds
    <3>1. file.ino \in Nat \ {0} /\ file.ino <= version /\ file'.at \in {"active", "final", "gone"}
      BY <2>2 DEF DiskTyped
    <3>2. file' \in Kinds
      BY <2>1, <2>2, <3>1 DEF DiskTyped
    <3> QED
      BY <1>1, <2>1, <2>2, <3>1, <3>2
  <2>4. Len(file'.bytes) <= MaxLen /\ DOMAIN file'.bytes = {}
    BY <1>1, <2>2
  <2> QED
    BY <1>2, <2>2, <2>3, <2>4 DEF DiskTyped
<1>7. ASSUME NEW ino \in {file.ino, version}, Recreate(ino) PROVE DiskTyped'
  <2>1. file' = [at |-> "active", ino |-> ino, bytes |-> <<>>] /\ version' = version
    BY <1>7 DEF Recreate
  <2>2. <<>> \in Bytes /\ ino \in Nat \ {0} /\ ino <= version
    BY SMTT(30) DEF Bytes, DiskTyped
  <2>3. file'.ino = ino /\ file'.bytes = <<>> /\ file'.at = "active" /\ file' \in Kinds
    BY <2>1, <2>2
  <2>4. Len(file'.bytes) <= MaxLen /\ DOMAIN file'.bytes = {}
    BY <1>1, <2>3
  <2> QED
    BY <1>2, <2>1, <2>2, <2>3, <2>4 DEF DiskTyped
<1> QED
  BY <1>3, <1>4, <1>5, <1>6, <1>7 DEF FileStep

\* The numbers of the file and of what has been seen of it.
LEMMA DiskNumbers ==
  ASSUME DiskTyped
  PROVE  /\ file.bytes \in Bytes /\ Len(file.bytes) \in 0..MaxLen /\ version \in Nat
         /\ DOMAIN file.bytes = 1..Len(file.bytes) /\ file.ino \in Nat \ {0} /\ file.ino <= version
         /\ seen.size \in Nat /\ seen.ino \in Nat /\ seen.generation \in Nat /\ seen.anchor \in Bytes
         /\ Len(seen.anchor) \in Nat
<1>1. file.bytes \in Bytes /\ version \in 1..MaxVersions /\ file.ino \in Nat \ {0}
  BY DEF DiskTyped
<1>2. seen.size \in 0..MaxLen /\ seen.ino \in Nat /\ seen.generation \in Nat /\ seen.anchor \in Bytes
  BY DEF DiskTyped, Sights
<1>3. Len(file.bytes) \in Nat /\ DOMAIN file.bytes = 1..Len(file.bytes) /\ Len(seen.anchor) \in Nat
  BY <1>1, <1>2 DEF Bytes
<1> QED
  BY <1>1, <1>2, <1>3 DEF DiskTyped

\* The last byte of the anchor is a version.
LEMMA AnchorByte ==
  ASSUME DiskTyped, SeenSound, ~seen.torn, seen.size > 0
  PROVE  seen.anchor[Len(seen.anchor)] \in Nat
<1>1. seen.anchor \in Bytes /\ Len(seen.anchor) = Smaller(Anchor, seen.size) /\ seen.size \in Nat
  BY DiskNumbers DEF SeenSound
<1>2. Len(seen.anchor) \in 1..Len(seen.anchor)
  BY <1>1 DEF Smaller
<1> QED
  BY SMTT(30), <1>1, <1>2 DEF Bytes

\* A file shorter than what was seen of it does not have the anchor's last byte
\* when it grows to that size again.
LEMMA GrownAgain ==
  ASSUME DiskTyped, DiskTyped', SeenSound, ~seen.torn, Write, seen' = seen, ~Changed'
  PROVE  seen.size <= Len(file.bytes)
<1>1. /\ file'.bytes = Append(file.bytes, version) /\ version' = version
      /\ file'.ino = file.ino
  BY DEF Write, DiskTyped
<1>2. /\ file.bytes \in Bytes /\ Len(file.bytes) \in Nat /\ version \in Nat /\ seen.size \in Nat
      /\ file'.bytes \in Bytes /\ Len(file'.bytes) = Len(file.bytes) + 1
      /\ file'.bytes[Len(file.bytes) + 1] = version
  <2>1. file.bytes \in Bytes /\ Len(file.bytes) \in Nat /\ version \in Nat /\ seen.size \in Nat
    BY DiskNumbers
  <2>2. file'.bytes \in Bytes
    BY DEF DiskTyped
  <2> QED
    BY <1>1, <2>1, <2>2 DEF Bytes
<1>3. SUFFICES ASSUME Len(file.bytes) < seen.size PROVE FALSE
  BY <1>2
<1>4. seen.size = Len(file.bytes) + 1 /\ seen.size > 0
  BY SMTT(30), <1>2, <1>3 DEF Changed, Differs
<1>5. /\ Len(seen.anchor) = Smaller(Anchor, seen.size) /\ Len(seen.anchor) \in DOMAIN seen.anchor
      /\ Minus(seen.size, Anchor) + Len(seen.anchor) = seen.size
  <2>1. Len(seen.anchor) = Smaller(Anchor, seen.size) /\ seen.anchor \in Bytes
    BY DiskNumbers DEF SeenSound
  <2>2. Len(seen.anchor) \in 1..Len(seen.anchor)
    BY <1>2, <1>4, <2>1 DEF Smaller
  <2>3. Minus(seen.size, Anchor) + Smaller(Anchor, seen.size) = seen.size
    BY <1>2 DEF Minus, Smaller
  <2> QED
    BY <2>1, <2>2, <2>3 DEF Bytes
<1>6. seen.anchor[Len(seen.anchor)] = version
  <2>1. file'.bytes[seen.size] = version
    BY <1>2, <1>4
  <2>2. file'.bytes[seen.size] = seen.anchor[Len(seen.anchor)]
    BY <1>5 DEF Changed, Differs
  <2> QED
    BY <2>1, <2>2
<1>7. seen.anchor[Len(seen.anchor)] < version
  BY <1>3, <1>4 DEF SeenSound
<1> QED
  BY <1>2, <1>6, <1>7

\* A step of the file that hides a change from the next read hides none: what
\* has not changed after it has not changed before it, and is still there.
LEMMA StillThere ==
  ASSUME DiskTyped, DiskTyped', SeenSound, ~seen.torn, FileStep, ~Changed'
  PROVE  /\ ~Changed /\ seen.size <= Len(file.bytes) /\ seen.size <= Len(file'.bytes)
         /\ \A n \in 1..seen.size : file.bytes[n] = file'.bytes[n]
<1>1. seen' = seen
  BY DEF FileStep, rootVars
<1>2. /\ file.bytes \in Bytes /\ Len(file.bytes) \in Nat /\ version \in Nat /\ seen.size \in Nat
      /\ file.ino \in Nat /\ file.ino <= version /\ seen.ino \in Nat
  BY DiskNumbers
<1>3. seen'.ino = file'.ino /\ seen.size <= Len(file'.bytes)
  <2>1. Len(file'.bytes) \in Nat
    BY DEF DiskTyped, Bytes
  <2> QED
    BY <1>1, <1>2, <2>1 DEF Changed, Differs
<1>4. ASSUME file'.ino = file.ino, seen.size <= Len(file.bytes),
             \A n \in 1..seen.size : file.bytes[n] = file'.bytes[n]
      PROVE  ~Changed
  BY <1>1, <1>3, <1>4, SameFile
<1>5. CASE Write
  <2>1. seen.size <= Len(file.bytes)
    BY <1>1, <1>5, GrownAgain
  <2>2. file'.bytes = Append(file.bytes, version) /\ file'.ino = file.ino
    BY <1>5 DEF Write, DiskTyped
  <2>3. \A n \in 1..Len(file.bytes) : file'.bytes[n] = file.bytes[n]
    BY <1>2, <2>2 DEF Bytes
  <2> QED
    BY SMTT(30), <1>2, <1>3, <1>4, <2>1, <2>2, <2>3
<1>6. CASE Finalise
  <2>1. file'.bytes = file.bytes /\ file'.ino = file.ino
    BY <1>6 DEF Finalise, DiskTyped
  <2> QED
    BY <1>2, <1>3, <1>4, <2>1
<1>7. ASSUME NEW length \in 0..MaxLen, Truncate(length)
      PROVE  /\ file'.ino = file.ino /\ seen.size <= Len(file.bytes)
             /\ \A n \in 1..seen.size : file.bytes[n] = file'.bytes[n]
  <2>1. file'.bytes = Segment(file.bytes, 0, length) /\ length < Len(file.bytes) /\ file'.ino = file.ino
    BY <1>7 DEF Truncate, DiskTyped
  <2>2. length \in 0..Len(file.bytes) /\ 0 \in 0..length /\ length - 0 = length
    BY <1>2, <2>1
  <2>3. Len(file'.bytes) = length - 0 /\ \A n \in 1..length - 0 : file'.bytes[n] = file.bytes[0 + n]
    <3>1. Len(Segment(file.bytes, 0, length)) = length - 0
      BY <1>2, <2>2, SegmentIs
    <3>2. \A n \in 1..length - 0 : Segment(file.bytes, 0, length)[n] = file.bytes[0 + n]
      BY <1>2, <2>2, SegmentIs
    <3> QED
      BY <2>1, <3>1, <3>2
  <2>4. Len(file'.bytes) = length /\ \A n \in 1..length : file'.bytes[n] = file.bytes[n]
    BY <2>2, <2>3
  <2> QED
    BY SMTT(30), <1>2, <1>3, <2>1, <2>4
<1>8. CASE Remove
  <2>1. file'.bytes = <<>> /\ file'.ino = file.ino
    BY <1>8 DEF Remove, DiskTyped
  <2>2. seen.size = 0
    BY <1>2, <1>3, <2>1
  <2> QED
    BY <1>2, <1>3, <1>4, <2>1, <2>2
<1>9. ASSUME NEW ino \in {file.ino, version}, Recreate(ino)
      PROVE  file'.ino = file.ino /\ file'.bytes = <<>> /\ file.bytes = <<>>
  <2>1. file.at = "gone" /\ file'.ino = ino /\ file'.bytes = <<>>
    BY <1>9 DEF Recreate
  <2>2. seen.ino < version /\ file.bytes = <<>>
    BY <2>1 DEF SeenSound, DiskTyped
  <2> QED
    BY <1>1, <1>2, <1>3, <2>1, <2>2
<1> QED
  <2>1. ASSUME NEW length \in 0..MaxLen, Truncate(length) PROVE ~Changed
    BY <1>4, <1>7, <2>1
  <2>2. ASSUME NEW ino \in {file.ino, version}, Recreate(ino)
        PROVE  /\ ~Changed /\ seen.size <= Len(file.bytes)
               /\ \A n \in 1..seen.size : file.bytes[n] = file'.bytes[n]
    <3>1. seen.size = 0 /\ Len(file.bytes) = 0
      BY <1>2, <1>3, <1>9, <2>2
    <3> QED
      BY <1>4, <1>9, <2>2, <3>1
  <2> QED
    BY <1>3, <1>4, <1>5, <1>6, <1>7, <1>8, <2>1, <2>2 DEF FileStep

\* What has been read keeps being sound, whatever happens to the file.
LEMMA FileKeeps ==
  ASSUME DiskTyped, DiskTyped', SeenSound, FileStep, NEW x \in Readings, ReadSound(x)
  PROVE  ReadSound(x)'
<1>1. seen' = seen
  BY DEF FileStep, rootVars
<1>2. x.generation <= seen'.generation
  BY <1>1 DEF ReadSound
<1>3. SUFFICES ASSUME x.generation = seen'.generation, ~Doubt'
               PROVE  End(x) <= seen'.size /\ Holds(file'.bytes, x)
  BY <1>2 DEF ReadSound, End, Holds
<1>4. /\ ~Doubt /\ seen.size <= Len(file.bytes) /\ seen.size <= Len(file'.bytes)
      /\ \A n \in 1..seen.size : file.bytes[n] = file'.bytes[n]
  <2>1. ~Changed' /\ ~seen.torn
    BY <1>1, <1>3 DEF Doubt
  <2> QED
    BY <2>1, StillThere DEF Doubt
<1>5. End(x) <= seen.size /\ Holds(file.bytes, x)
  BY <1>1, <1>3, <1>4 DEF ReadSound
<1>6. /\ file.bytes \in Bytes /\ file'.bytes \in Bytes /\ seen.size \in Nat
      /\ x.start \in Nat /\ x.bytes \in Bytes
  BY DEF DiskTyped, Sights, Readings
<1>7. Holds(file'.bytes, x)
  BY <1>4, <1>5, <1>6, HoldsOn
<1> QED
  BY <1>1, <1>5, <1>7

\* A change of the file makes everything seen of it older than the new version.
LEMMA FileSeen ==
  ASSUME DiskTyped, DiskTyped', SeenSound, FileStep PROVE SeenSound'
<1>1. seen' = seen
  BY DEF FileStep, rootVars
<1>2. /\ file.bytes \in Bytes /\ Len(file.bytes) \in Nat /\ version \in Nat /\ seen.size \in Nat
      /\ seen.ino \in Nat /\ Len(file'.bytes) \in Nat
  <2>1. Len(file'.bytes) \in Nat
    BY DEF DiskTyped, Bytes
  <2> QED
    BY <2>1, DiskNumbers
<1>3. ~seen.torn /\ seen.size > 0 => seen.anchor[Len(seen.anchor)] \in Nat
  BY AnchorByte
<1>4. \/ version' = version /\ Len(file'.bytes) >= Len(file.bytes)
         /\ (file'.at = "gone" => file.at = "gone")
      \/ version' = version + 1
  <2>1. CASE Write
    BY <1>2, <2>1 DEF Write, DiskTyped, Bytes
  <2>2. CASE Finalise
    BY <1>2, <2>2 DEF Finalise, DiskTyped
  <2>3. ASSUME NEW ino \in {file.ino, version}, Recreate(ino)
        PROVE  version' = version /\ Len(file'.bytes) >= Len(file.bytes) /\ file'.at # "gone"
    BY <1>2, <2>3 DEF Recreate, DiskTyped
  <2> QED
    BY <2>1, <2>2, <2>3 DEF FileStep, Remove, Truncate
<1>5. CASE version' = version + 1
  <2>1. /\ seen.generation = 0 => seen.ino = 0
        /\ seen.ino <= version
        /\ ~seen.torn => Len(seen.anchor) = Smaller(Anchor, seen.size)
        /\ ~seen.torn /\ seen.size > 0 => seen.anchor[Len(seen.anchor)] <= version
    BY DEF SeenSound
  <2>2. PICK last : last = seen.anchor[Len(seen.anchor)]
    OBVIOUS
  <2>3. ~seen.torn /\ seen.size > 0 => last < version'
    BY <1>2, <1>3, <1>5, <2>1, <2>2
  <2>4. seen.ino < version'
    BY <1>2, <1>5, <2>1
  <2>5. ~seen.torn /\ seen.size > 0 => last <= version'
    BY <1>2, <1>3, <1>5, <2>1, <2>2
  <2> QED
    BY SMTT(30), <1>1, <1>2, <1>5, <2>1, <2>2, <2>3, <2>4, <2>5 DEF SeenSound
<1>6. CASE version' = version /\ Len(file'.bytes) >= Len(file.bytes)
           /\ (file'.at = "gone" => file.at = "gone")
  BY SMTT(30), <1>1, <1>2, <1>3, <1>6 DEF SeenSound
<1> QED
  BY <1>4, <1>5, <1>6

\* The read that is under way keeps its hold on the file.
LEMMA FileJob ==
  ASSUME DiskTyped, DiskTyped', SeenSound, job \in Jobs, JobSound, FileStep PROVE JobSound'
<1>1. seen' = seen /\ job' = job
  BY DEF FileStep, rootVars
<1>2. /\ version \in Nat /\ job.version \in Nat /\ job.size \in Nat /\ Len(file.bytes) \in Nat
      /\ file.bytes \in Bytes /\ seen.size \in Nat
  BY DiskNumbers DEF Jobs, JobFields
<1>3. CASE job.step \notin {"opened", "compared"}
  BY <1>1, <1>3 DEF JobSound
<1>4. ASSUME job.step \in {"opened", "compared"}, version' = version + 1 PROVE JobSound'
  <2>1. job.version <= version' /\ job.version # version'
    BY <1>2, <1>4 DEF JobSound
  <2> QED
    BY <1>1, <1>4, <2>1 DEF JobSound
<1>5. ASSUME job.step \in {"opened", "compared"}, version' = version, file'.ino = file.ino,
             file'.at # "gone", Len(file.bytes) <= Len(file'.bytes), Len(file'.bytes) \in Nat,
             \A n \in 1..Len(file.bytes) : file.bytes[n] = file'.bytes[n]
      PROVE  JobSound'
  <2>1. ~Changed => ~Changed'
    <3>1. SUFFICES ASSUME ~Changed PROVE ~Changed'
      OBVIOUS
    <3>2. seen.size <= Len(file.bytes)
      BY <1>2, <3>1 DEF Changed, Differs
    <3>3. seen.size <= Len(file'.bytes) /\ \A n \in 1..seen.size : file.bytes[n] = file'.bytes[n]
      BY <1>2, <1>5, <3>2
    <3> QED
      BY <1>1, <1>5, <3>1, <3>2, <3>3, SameFile
  <2>2. job.size <= Len(file.bytes) => job.size <= Len(file'.bytes)
    BY <1>2, <1>5
  <2> QED
    BY <1>1, <1>5, <2>1, <2>2 DEF JobSound
<1>6. ASSUME job.step \in {"opened", "compared"}, NEW ino \in {file.ino, version}, Recreate(ino)
      PROVE  JobSound'
  <2>1. file.at = "gone" /\ version' = version /\ job.version # version
    BY <1>6 DEF Recreate, JobSound
  <2> QED
    BY <1>1, <1>6, <2>1 DEF JobSound
<1>7. ASSUME job.step \in {"opened", "compared"}, Write PROVE JobSound'
  <2>1. /\ file'.bytes = Append(file.bytes, version) /\ file'.ino = file.ino /\ version' = version
        /\ file'.at # "gone"
    BY <1>7 DEF Write, DiskTyped
  <2>2. /\ Len(file'.bytes) = Len(file.bytes) + 1
        /\ \A n \in 1..Len(file.bytes) : file'.bytes[n] = file.bytes[n]
    BY <1>2, <2>1 DEF Bytes
  <2> QED
    BY <1>2, <1>5, <1>7, <2>1, <2>2
<1>8. ASSUME job.step \in {"opened", "compared"}, Finalise PROVE JobSound'
  <2>1. file'.bytes = file.bytes /\ file'.ino = file.ino /\ version' = version /\ file'.at # "gone"
    BY <1>8 DEF Finalise, DiskTyped
  <2> QED
    BY <1>2, <1>5, <1>8, <2>1
<1>9. ASSUME job.step \in {"opened", "compared"} PROVE JobSound'
  <2>1. ASSUME NEW length \in 0..MaxLen, Truncate(length) PROVE JobSound'
    BY <1>4, <1>9, <2>1 DEF Truncate
  <2>2. ASSUME Remove PROVE JobSound'
    BY <1>4, <1>9, <2>2 DEF Remove
  <2> QED
    BY <1>6, <1>7, <1>8, <1>9, <2>1, <2>2 DEF FileStep
<1> QED
  BY <1>3, <1>9

\* A step that does not change the file may look at it.
Looks ==
    /\ file' = file /\ version' = version /\ node' \in {"active", "final"} /\ orphan' = orphan
    /\ seen' = seen \/ (seen' = Recorded /\ job.step = "compared")

\* Nothing happens to a read that rests, nor to one that is over.
LEMMA JobRests ==
  ASSUME JobSound, job' = job, seen' = seen, file' = file, version' = version
  PROVE  JobSound'
BY DEF JobSound, Changed, Differs

\* A store that waits for nothing has a sound read.
LEMMA JobFree ==
  NoJob \in Jobs /\ NoJob.kind = "none" /\ (job' = NoJob => JobSound')
<1>1. NoJob \in JobFields /\ NoJob.start <= NoJob.end /\ NoJob.end <= NoJob.size
  BY DEF NoJob, JobFields, Steps
<1>2. NoJob.step = "none" /\ NoJob.kind = "none"
  BY DEF NoJob
<1> QED
  BY <1>1, <1>2 DEF Jobs, JobSound

\* As long as the version that was opened is the last, the read leads to the file.
LEMMA HeldIs ==
  ASSUME DiskTyped, job \in Jobs, JobSound, job.step \in {"opened", "compared"}
  PROVE  /\ Held \in Bytes /\ job.ino \in Nat \ {0} /\ job.size \in Lengths /\ job.size \in Nat
         /\ job.ino <= version /\ (file.at = "gone" => job.ino < version)
         /\ job.version = version => Held = file.bytes /\ job.size <= Len(file.bytes)
<1>1. /\ version \in Nat /\ job.version \in Nat /\ job.ino \in Nat /\ job.size \in Lengths
      /\ file.bytes \in Bytes /\ orphan \in Bytes
  BY DiskNumbers DEF Jobs, JobFields, DiskTyped
<1>2. /\ job.ino # 0 /\ job.ino <= job.version /\ job.version <= version
      /\ job.version = version =>
            file.at # "gone" /\ file.ino = job.ino /\ job.size <= Len(file.bytes)
  BY DEF JobSound
<1>3. job.ino <= version /\ (file.at = "gone" => job.ino < version)
  BY <1>1, <1>2
<1>4. Held \in Bytes /\ (job.version = version => Held = file.bytes)
  BY <1>1, <1>2 DEF Held
<1> QED
  BY <1>1, <1>2, <1>3, <1>4

\* What a read sees of the file.
LEMMA Seen ==
  ASSUME DiskTyped, SeenSound, job \in Jobs, JobSound, job.step = "compared",
         file' = file, version' = version, seen' = Recorded
  PROVE  /\ seen' \in Sights /\ Len(seen'.anchor) <= Smaller(Anchor, seen'.size)
         /\ seen'.size = job.size /\ seen'.generation # 0
         /\ seen'.generation = Generation
         /\ seen'.torn = (job.version # version \/ (seen.torn /\ ~job.changed))
         /\ SeenSound'
<1>1. /\ Held \in Bytes /\ job.ino \in Nat \ {0} /\ job.size \in Lengths /\ job.size \in Nat
      /\ job.ino <= version /\ (file.at = "gone" => job.ino < version)
      /\ job.version = version => Held = file.bytes /\ job.size <= Len(file.bytes)
  BY HeldIs
<1>2. /\ seen.generation \in Nat /\ file.bytes \in Bytes /\ Len(file.bytes) \in Nat
      /\ version \in Nat /\ DOMAIN file.bytes = 1..Len(file.bytes)
      /\ seen.torn \in BOOLEAN /\ job.changed \in BOOLEAN
  BY DiskNumbers DEF DiskTyped, Sights, Jobs, JobFields
<1>3. PICK anchor \in Bytes : anchor = LastBytes(Held, job.size) /\ Len(anchor) <= Smaller(Anchor, job.size)
  BY <1>1, AnchorTyped
<1>4. PICK torn \in BOOLEAN : torn = (job.version # version \/ (seen.torn /\ ~job.changed))
  OBVIOUS
<1>5. PICK generation \in Nat : generation = Generation
  BY <1>2 DEF Generation
<1>6. seen' = [generation |-> generation, ino |-> job.ino, size |-> job.size, anchor |-> anchor,
               torn |-> torn]
  BY <1>3, <1>4, <1>5 DEF Recorded
<1>7. seen' \in Sights
  BY <1>1, <1>6 DEF Sights
<1>8. generation # 0
  BY <1>2, <1>5 DEF JobSound, Generation
<1>9. ASSUME ~torn
      PROVE  /\ Len(anchor) = Smaller(Anchor, job.size)
             /\ job.size <= Len(file.bytes)
             /\ job.size > 0 => anchor[Len(anchor)] <= version
  <2>1. job.version = version /\ job.size \in 0..Len(file.bytes)
    <3>1. job.version = version
      BY <1>4, <1>9, Zenon
    <3> QED
      BY <1>1, <1>2, <3>1
  <2>2. anchor = LastBytes(file.bytes, job.size)
    BY <1>1, <1>3, <2>1
  <2>3. /\ Len(anchor) = Smaller(Anchor, job.size)
        /\ job.size > 0 => anchor[Len(anchor)] = file.bytes[job.size]
    BY <1>2, <2>1, <2>2, AnchorIs
  <2>4. job.size > 0 => file.bytes[job.size] <= version
    <3>1. job.size > 0 => job.size \in DOMAIN file.bytes
      BY <1>1, <1>2, <2>1
    <3> QED
      BY <3>1 DEF DiskTyped
  <2> QED
    BY <2>1, <2>3, <2>4
<1>10. SeenSound'
  <2>1. /\ seen'.generation = generation /\ seen'.ino = job.ino /\ seen'.size = job.size
        /\ seen'.anchor = anchor /\ seen'.torn = torn
    BY <1>6
  <2>2. ~torn => ~(Len(file.bytes) < job.size)
    BY <1>1, <1>2, <1>9
  <2> QED
    BY <1>1, <1>8, <1>9, <2>1, <2>2 DEF SeenSound
<1> QED
  BY <1>3, <1>4, <1>5, <1>6, <1>7, <1>8, <1>10

\* Looking keeps what is known of the file, ...
LEMMA LookTyped ==
  ASSUME DiskTyped, SeenSound, job \in Jobs, JobSound, Looks PROVE DiskTyped' /\ SeenSound'
<1>1. CASE seen' = seen
  BY <1>1 DEF Looks, DiskTyped, SeenSound
<1>2. CASE seen' = Recorded /\ job.step = "compared"
  BY <1>2, Seen DEF Looks, DiskTyped
<1> QED
  BY <1>1, <1>2 DEF Looks

\* ... and what has been read of it: a new generation is of none of it.
LEMMA LookKeeps ==
  ASSUME DiskTyped, SeenSound, job \in Jobs, JobSound, Looks, NEW x \in Readings, ReadSound(x)
  PROVE  ReadSound(x)'
<1>1. CASE seen' = seen
  BY <1>1 DEF Looks, ReadSound, Doubt, Changed, Differs
<1>2. CASE seen' = Recorded /\ job.step = "compared"
  <2>1. /\ seen'.generation = Generation /\ seen'.size = job.size /\ file' = file
        /\ seen'.torn = (job.version # version \/ (seen.torn /\ ~job.changed))
    BY <1>2, Seen DEF Looks
  <2>2. /\ x.generation \in Nat /\ seen.generation \in Nat /\ x.generation <= seen.generation
        /\ seen.size \in Nat /\ job.size \in Nat /\ End(x) \in Nat
    <3>1. End(x) \in Nat
      BY SMTT(30) DEF Readings, Bytes, End
    <3> QED
      BY <3>1, DiskNumbers DEF ReadSound, Readings, Jobs, JobFields
  <2>3. x.generation <= seen'.generation
    BY <2>1, <2>2 DEF Generation
  <2>4. ASSUME x.generation = seen'.generation, ~Doubt'
        PROVE  End(x) <= job.size /\ Holds(file.bytes, x)
    <3>1. ~job.changed /\ x.generation = seen.generation
      BY <2>1, <2>2, <2>4 DEF Generation
    <3>2. ~seen'.torn
      BY <2>4 DEF Doubt
    <3>3. ~seen.torn /\ job.version = version
      BY <2>1, <3>1, <3>2
    <3>4. ~Doubt /\ seen.size <= job.size
      BY <1>2, <3>1, <3>3 DEF JobSound, Doubt
    <3>5. End(x) <= seen.size /\ Holds(file.bytes, x)
      BY <3>1, <3>4 DEF ReadSound
    <3> QED
      BY <2>2, <3>4, <3>5
  <2> QED
    BY <2>1, <2>3, <2>4 DEF ReadSound, Holds
<1> QED
  BY <1>1, <1>2 DEF Looks

\* What is read of a file that has not changed since it was opened is sound,
\* and even if it has: the next read will tell.
LEMMA NewReading ==
  ASSUME DiskTyped, NEW x \in Readings, x.generation = seen.generation, NEW start, NEW end,
         start \in 0..end, end \in 0..seen.size, seen.size <= Len(file.bytes),
         x.start = start, x.bytes = Segment(file.bytes, start, end)
  PROVE  ReadSound(x)
<1>1. /\ file.bytes \in Bytes /\ Len(file.bytes) \in Nat /\ seen.size \in Nat
      /\ seen.generation \in Nat
  BY DiskNumbers
<1>2. end \in 0..Len(file.bytes)
  BY <1>1
<1>3. Len(x.bytes) = end - start
  <2>1. Len(Segment(file.bytes, start, end)) = end - start
    BY <1>1, <1>2, SegmentIs
  <2> QED
    BY <2>1
<1>4. End(x) = end
  BY <1>3 DEF End
<1> QED
  BY <1>1, <1>2, <1>4 DEF ReadSound, Holds
-----------------------------------------------------------------------------
(* Steps of the server *)

\* All that has been read is sound after a step that keeps it.
Keeps == \A x \in Readings : ReadSound(x) => ReadSound(x)'

\* Replies, blocks and the window are readings.
LEMMA AreReadings ==
  /\ \A w \in Windows : w \in Readings
  /\ \A q \in Requests : q.reply \in Replies
  /\ \A r \in Replies :
        /\ [generation |-> r.generation, start |-> r.start, bytes |-> r.bytes] \in Readings
        /\ ReadSound(r) <=> ReadSound([generation |-> r.generation, start |-> r.start, bytes |-> r.bytes])
        /\ ReadSound(r)' <=> ReadSound([generation |-> r.generation, start |-> r.start, bytes |-> r.bytes])'
  /\ \A m \in ChunkMessage :
        /\ [generation |-> m.generation, start |-> m.start, bytes |-> m.bytes] \in Readings
        /\ ReadSound(m) <=> ReadSound([generation |-> m.generation, start |-> m.start, bytes |-> m.bytes])
        /\ ReadSound(m)' <=> ReadSound([generation |-> m.generation, start |-> m.start, bytes |-> m.bytes])'
BY DEF Windows, Readings, Requests, Replies, ChunkMessage, End, ReadSound, Holds

\* So a step that keeps all readings keeps the recorded ones.
LEMMA KeepsAll ==
  ASSUME Keeps
  PROVE  /\ \A w \in Windows : ReadSound(w) => ReadSound(w)'
         /\ \A r \in Replies : ReadSound(r) => ReadSound(r)'
         /\ \A m \in ChunkMessage : ReadSound(m) => ReadSound(m)'
BY AreReadings DEF Keeps

\* A message of type `chunk` is a block.
LEMMA ChunksAre ==
  /\ \A m \in ClientMessage : m.type = "chunk" => m \in ChunkMessage
  /\ \A m \in ServerMessage : /\ m.type = "subscribe" => m \in SubscribeMessage
                              /\ m.type = "ack" => m \in AckMessage
BY DEF ClientMessage, ChunkMessage, NoticeMessage, Notices, ServerMessage, SubscribeMessage, AckMessage

\* Each message of two queues put together is of one of them.
LEMMA Joined ==
  ASSUME NEW s \in Seq(ClientMessage), NEW t \in Seq(ClientMessage), NEW n \in DOMAIN (s \o t)
  PROVE  (\E k \in DOMAIN s : (s \o t)[n] = s[k]) \/ (\E k \in DOMAIN t : (s \o t)[n] = t[k])
<1>1. /\ Len(s) \in Nat /\ Len(t) \in Nat /\ DOMAIN s = 1..Len(s) /\ DOMAIN t = 1..Len(t)
      /\ DOMAIN (s \o t) = 1..Len(s) + Len(t)
      /\ (s \o t)[n] = IF n <= Len(s) THEN s[n] ELSE t[n - Len(s)]
  BY ConcatProperties
<1>2. n <= Len(s) => n \in DOMAIN s
  BY <1>1
<1>3. ~(n <= Len(s)) => n - Len(s) \in DOMAIN t
  BY <1>1
<1> QED
  BY <1>1, <1>2, <1>3

\* What a message to the client leaves of flows and queues.
LEMMA PostIs ==
  ASSUME ServerTyped, NEW c \in Flows, NEW messages \in Seq(ClientMessage), NEW pc \in Where,
         Post(c, messages, pc)
  PROVE  /\ flow' \in [Flows -> [pc : Where, generation : Nat]]
         /\ toClient' \in [Flows -> Seq(ClientMessage)]
         /\ \A d \in Flows : d # c => toClient'[d] = toClient[d] /\ flow'[d] = flow[d]
         /\ toClient'[c] = IF link[c] = "open" THEN toClient[c] \o messages ELSE toClient[c]
         /\ flow'[c].pc \in {pc, "leaving"} /\ flow'[c].generation = flow[c].generation
<1>1. "leaving" \in Where
  BY DEF Where
<1>2. PICK w \in {pc, "leaving"} : flow' = [flow EXCEPT ![c].pc = w]
  BY DEF Post, Goto
<1>3. w \in Where
  BY <1>1, <1>2
<1>4. /\ flow' \in [Flows -> [pc : Where, generation : Nat]]
      /\ \A d \in Flows : d # c => flow'[d] = flow[d]
      /\ flow'[c].pc = w /\ flow'[c].generation = flow[c].generation
  BY <1>2, <1>3 DEF ServerTyped
<1>5. /\ toClient' \in [Flows -> Seq(ClientMessage)]
      /\ \A d \in Flows : d # c => toClient'[d] = toClient[d]
      /\ toClient'[c] = IF link[c] = "open" THEN toClient[c] \o messages ELSE toClient[c]
  <2>1. toClient[c] \o messages \in Seq(ClientMessage)
    BY ConcatProperties DEF ServerTyped
  <2>2. toClient' = IF link[c] = "open" THEN [toClient EXCEPT ![c] = @ \o messages] ELSE toClient
    BY DEF Post
  <2> QED
    BY <2>1, <2>2 DEF ServerTyped
<1> QED
  BY <1>2, <1>4, <1>5

\* The blocks stay sound if the new ones are.
LEMMA PostSound ==
  ASSUME ServerTyped, Keeps, BlocksSound, NEW c \in Flows, NEW messages \in Seq(ClientMessage),
         NEW pc \in Where, Post(c, messages, pc),
         \A n \in DOMAIN messages : messages[n].type = "chunk" => ReadSound(messages[n])'
  PROVE  BlocksSound'
<1>1. /\ toClient' \in [Flows -> Seq(ClientMessage)]
      /\ \A d \in Flows : d # c => toClient'[d] = toClient[d]
      /\ toClient'[c] = IF link[c] = "open" THEN toClient[c] \o messages ELSE toClient[c]
  BY PostIs
<1>2. ASSUME NEW d \in Flows, NEW k \in DOMAIN toClient[d], NEW m, m = toClient[d][k],
             m.type = "chunk"
      PROVE  ReadSound(m)'
  <2>1. m \in ClientMessage
    BY SMTT(30), <1>2 DEF ServerTyped
  <2>2. m \in ChunkMessage /\ ReadSound(m)
    BY <1>2, <2>1, ChunksAre DEF BlocksSound
  <2> QED
    BY <2>2, KeepsAll
<1>3. ASSUME NEW k \in DOMAIN messages, NEW m, m = messages[k], m.type = "chunk"
      PROVE  ReadSound(m)'
  BY <1>3
<1>4. ASSUME NEW d \in Flows, NEW n \in DOMAIN toClient'[d]
      PROVE  \/ \E k \in DOMAIN toClient[d] : toClient'[d][n] = toClient[d][k]
             \/ \E k \in DOMAIN messages : toClient'[d][n] = messages[k]
  <2>1. CASE toClient'[d] = toClient[d]
    BY <2>1
  <2>2. CASE toClient'[d] = toClient[d] \o messages
    <3>1. toClient[d] \in Seq(ClientMessage) /\ n \in DOMAIN (toClient[d] \o messages)
      BY <2>2 DEF ServerTyped
    <3>2. PICK old \in Seq(ClientMessage) : old = toClient[d]
      BY <3>1
    <3>3. n \in DOMAIN (old \o messages)
      BY <3>1, <3>2
    <3>4. \/ \E k \in DOMAIN old : (old \o messages)[n] = old[k]
          \/ \E k \in DOMAIN messages : (old \o messages)[n] = messages[k]
      BY <3>3, Joined
    <3> QED
      BY <2>2, <3>2, <3>4
  <2> QED
    BY <1>1, <2>1, <2>2
<1>5. ASSUME NEW d \in Flows, NEW n \in DOMAIN toClient'[d], toClient'[d][n].type = "chunk"
      PROVE  ReadSound(toClient[d][n])'
  <2>1. PICK m : m = toClient'[d][n]
    OBVIOUS
  <2>2. ReadSound(m)'
    BY <1>2, <1>3, <1>4, <1>5, <2>1
  <2> QED
    BY <2>1, <2>2 DEF ReadSound, Holds, End
<1> QED
  BY <1>5 DEF BlocksSound

\* A server step leaves everything of the store but the queues of the connections.
ServerKeeps ==
    /\ DiskTyped' /\ ServerTyped' /\ SeenSound' /\ JobSound' /\ BlocksSound' /\ Keeps
    /\ job'.kind = "content" => job.kind = "content"

\* A step that neither reads nor sends.
LEMMA SilentStep ==
  ASSUME ReadInv, UNCHANGED <<diskVars, rootVars, job, toClient>>, ServerTyped'
  PROVE  ServerKeeps
<1>1. Looks
  BY DEF Looks, diskVars, rootVars, ReadInv, DiskTyped
<1>2. DiskTyped' /\ SeenSound' /\ Keeps
  BY <1>1, LookTyped, LookKeeps DEF ReadInv, ServerTyped, Keeps
<1>3. ASSUME NEW d \in Flows, NEW n \in DOMAIN toClient'[d], toClient'[d][n].type = "chunk"
      PROVE  ReadSound(toClient[d][n])'
  <2>1. PICK m : m = toClient[d][n]
    OBVIOUS
  <2>2. m \in ClientMessage /\ m.type = "chunk" /\ ReadSound(m)
    <3>1. n \in DOMAIN toClient[d] /\ toClient[d][n].type = "chunk"
      BY <1>3
    <3> QED
      <4>1. ReadSound(toClient[d][n])
        BY <3>1 DEF ReadInv, BlocksSound
      <4>2. toClient[d] \in Seq(ClientMessage)
        BY DEF ReadInv, ServerTyped
      <4>3. toClient[d][n] \in ClientMessage
        BY <3>1, <4>2
      <4> QED
        BY <2>1, <3>1, <4>1, <4>3
  <2>3. ReadSound(m)'
    BY <1>2, <2>2, ChunksAre, KeepsAll
  <2> QED
    BY <2>1, <2>3 DEF ReadSound, Holds, End
<1>4. JobSound'
  BY JobRests DEF ReadInv, diskVars, rootVars
<1> QED
  BY <1>2, <1>3, <1>4 DEF ServerKeeps, BlocksSound

\* A step of a flow that moves on.
LEMMA GotoIs ==
  ASSUME ServerTyped, NEW c \in Flows, NEW pc \in Where, Goto(c, pc)
  PROVE  /\ flow' \in [Flows -> [pc : Where, generation : Nat]]
         /\ flow'[c].pc = pc /\ flow'[c].generation = flow[c].generation
         /\ \A d \in Flows : d # c => flow'[d] = flow[d]
BY DEF Goto, ServerTyped

\* The turns of a flow that neither read nor send.
LEMMA TurnKeeps ==
  ASSUME ReadInv, NEW c \in Flows, UNCHANGED diskVars,
         \/ Begin(c) \/ Top(c) \/ Interrupted(c) \/ PollBusy(c) \/ PollNothing(c)
         \/ Leave(c) \/ Tidy(c) \/ Close(c)
  PROVE  ServerKeeps
<1>1. /\ UNCHANGED <<rootVars, job, toClient>>
      /\ selection' \in {selection, NoSelection} /\ ack' \in {ack, NoAck}
      /\ unavailable' \in {unavailable, 0} /\ cancel' \in {cancel, cancel + 1}
      /\ link' = link \/ link' = [link EXCEPT ![c] = "cut"]
      /\ toServer' = toServer \/ toServer' = [toServer EXCEPT ![c] = <<>>]
  BY DEF Begin, Top, Interrupted, PollBusy, PollNothing, Leave, Tidy, Close, dataVars
<1>2. /\ selection \in [rev : Nat, generation : Nat, offset : Lengths] /\ ack \in Lengths
      /\ unavailable \in Nat /\ cancel \in Nat
      /\ job \in Jobs
      /\ toServer \in [Flows -> Seq(ServerMessage)] /\ toClient \in [Flows -> Seq(ClientMessage)]
      /\ link \in [Flows -> {"none", "open", "cut"}]
      /\ flow \in [Flows -> [pc : Where, generation : Nat]]
  BY DEF ReadInv, ServerTyped
<1>3. NoSelection \in [rev : Nat, generation : Nat, offset : Lengths] /\ NoAck \in Lengths
  BY DEF NoSelection, NoAck
<1>4. flow' \in [Flows -> [pc : Where, generation : Nat]]
  <2>1. CASE Begin(c)
    <3>1. flow' = [flow EXCEPT ![c] = [pc |-> "top", generation |-> cancel + 1]]
      BY <2>1 DEF Begin
    <3>2. [pc |-> "top", generation |-> cancel + 1] \in [pc : Where, generation : Nat]
      BY <1>2 DEF Where
    <3> QED
      BY <1>2, <3>1, <3>2
  <2>2. CASE ~Begin(c)
    <3>1. \E pc \in {"select", "leaving", "top", "tidying", "closing", "done"} : Goto(c, pc)
      BY <2>2 DEF Top, Interrupted, PollBusy, PollNothing, Leave, Tidy, Close
    <3>2. {"select", "leaving", "top", "tidying", "closing", "done"} \subseteq Where
      BY DEF Where
    <3> QED
      BY <3>1, <3>2, GotoIs DEF ReadInv
  <2> QED
    BY <2>1, <2>2
<1>5. link' \in [Flows -> {"none", "open", "cut"}] /\ toServer' \in [Flows -> Seq(ServerMessage)]
  <2>1. link' \in [Flows -> {"none", "open", "cut"}]
    BY <1>1, <1>2
  <2>2. <<>> \in Seq(ServerMessage)
    OBVIOUS
  <2>3. toServer' \in [Flows -> Seq(ServerMessage)]
    BY <1>1, <1>2, <2>2
  <2> QED
    BY <2>1, <2>3
<1>6. ServerTyped'
  <2>1. /\ selection' \in [rev : Nat, generation : Nat, offset : Lengths] /\ ack' \in Lengths
        /\ unavailable' \in Nat /\ cancel' \in Nat
    <3>1. selection' \in [rev : Nat, generation : Nat, offset : Lengths]
      BY <1>1, <1>2, <1>3
    <3>2. ack' \in Lengths
      BY <1>1, <1>2, <1>3
    <3>3. unavailable' \in Nat /\ cancel' \in Nat
      BY SMTT(30), <1>1, <1>2
    <3> QED
      BY <3>1, <3>2, <3>3
  <2>2. job' \in Jobs
    BY <1>1, <1>2
  <2> QED
    BY <1>1, <1>2, <1>4, <1>5, <2>1, <2>2 DEF ServerTyped
<1> QED
  BY <1>1, <1>6, SilentStep

\* The messages of the server have the types of the queue.
LEMMA MessageTypes ==
  ASSUME NEW rev \in Nat
  PROVE  /\ \A type \in Notices \cup {"reset", "file-renamed"} :
               /\ [type |-> type, rev |-> rev] \in ClientMessage
               /\ [type |-> type, rev |-> rev].type # "chunk"
         /\ [type |-> "error"] \in ClientMessage
BY DEF ClientMessage, NoticeMessage, Notices

\* A step that sends no blocks.
LEMMA SendStep ==
  ASSUME ReadInv, UNCHANGED <<diskVars, cancel, link>>, Looks, NEW c \in Flows,
         NEW messages \in Seq(ClientMessage), \A n \in DOMAIN messages : messages[n].type # "chunk",
         NEW pc \in Where, Post(c, messages, pc),
         selection' \in [rev : Nat, generation : Nat, offset : Lengths], ack' \in Lengths,
         unavailable' \in Nat, job' = NoJob,
         toServer' \in [Flows -> Seq(ServerMessage)]
  PROVE  ServerKeeps
<1>1. DiskTyped' /\ SeenSound' /\ Keeps
  BY LookTyped, LookKeeps DEF ReadInv, ServerTyped, Keeps
<1>2. BlocksSound'
  BY <1>1, PostSound DEF ReadInv
<1>3. /\ flow' \in [Flows -> [pc : Where, generation : Nat]]
      /\ toClient' \in [Flows -> Seq(ClientMessage)]
  BY PostIs DEF ReadInv
<1>4. ServerTyped'
  BY <1>3, JobFree DEF ReadInv, ServerTyped
<1>5. JobSound' /\ job'.kind = "none"
  BY JobFree
<1> QED
  BY <1>1, <1>2, <1>4, <1>5 DEF ServerKeeps

\* The queue of the server without the message it handles.
LEMMA TailIs ==
  ASSUME NEW S, NEW s \in Seq(S), s # <<>>
  PROVE  /\ Head(s) \in S /\ Tail(s) \in Seq(S) /\ Len(Tail(s)) = Len(s) - 1 /\ Head(s) = s[1]
         /\ \A n \in DOMAIN Tail(s) : n + 1 \in DOMAIN s /\ Tail(s)[n] = s[n + 1]
BY HeadTailProperties

\* Messages of the client change the selection, within its types.
LEMMA ReceiveKeeps ==
  ASSUME ReadInv, NEW c \in Flows, UNCHANGED diskVars, Receive(c) PROVE ServerKeeps
<1>1. PICK message : message = Head(toServer[c])
  OBVIOUS
<1>2. /\ toServer[c] # <<>> /\ toServer' = [toServer EXCEPT ![c] = Tail(@)]
      /\ Subscribe(c, message) \/ Unsubscribe(c, message) \/ Acknowledge(c, message)
      /\ UNCHANGED <<rootVars, cancel, job, link>> /\ job = NoJob
  BY <1>1 DEF Receive
<1>3. /\ selection \in [rev : Nat, generation : Nat, offset : Lengths] /\ ack \in Lengths
      /\ unavailable \in Nat /\ job \in Jobs
      /\ toServer \in [Flows -> Seq(ServerMessage)] /\ toClient \in [Flows -> Seq(ClientMessage)]
  BY DEF ReadInv, ServerTyped
<1>4. message \in ServerMessage /\ toServer' \in [Flows -> Seq(ServerMessage)]
  <2>1. Head(toServer[c]) \in ServerMessage /\ Tail(toServer[c]) \in Seq(ServerMessage)
    BY <1>2, <1>3, TailIs
  <2> QED
    BY <1>1, <1>2, <1>3, <2>1
<1>5. Looks /\ "poll" \in Where
  BY <1>2 DEF Looks, diskVars, rootVars, ReadInv, DiskTyped, Where
<1>6. job' = NoJob
  BY <1>2, <1>3 DEF NoJob
<1>7. CASE Subscribe(c, message)
  <2>1. /\ message.type = "subscribe"
        /\ selection' = [rev |-> message.rev, generation |-> message.generation, offset |-> message.offset]
        /\ ack' = NoAck /\ unavailable' = 0
        /\ Post(c, <<[type |-> "subscribed", rev |-> message.rev]>>, "poll")
    BY <1>7 DEF Subscribe
  <2>2. message \in SubscribeMessage
    BY <1>4, <2>1, ChunksAre
  <2>3. /\ selection' \in [rev : Nat, generation : Nat, offset : Lengths] /\ ack' \in Lengths
        /\ unavailable' \in Nat /\ message.rev \in Nat
    BY <2>1, <2>2 DEF SubscribeMessage, NoAck
  <2>4. PICK messages : messages = <<[type |-> "subscribed", rev |-> message.rev]>>
    OBVIOUS
  <2>5. messages \in Seq(ClientMessage) /\ \A n \in DOMAIN messages : messages[n].type # "chunk"
    <3>1. /\ [type |-> "subscribed", rev |-> message.rev] \in ClientMessage
          /\ [type |-> "subscribed", rev |-> message.rev].type # "chunk"
      BY <2>3, MessageTypes DEF Notices
    <3> QED
      BY <2>4, <3>1
  <2>6. Post(c, messages, "poll")
    BY <2>1, <2>4
  <2> QED
    BY <1>2, <1>4, <1>5, <1>6, <2>3, <2>5, <2>6, SendStep
<1>8. CASE Unsubscribe(c, message)
  <2>1. /\ selection' = NoSelection /\ ack' = NoAck /\ Goto(c, "poll")
        /\ UNCHANGED <<unavailable, toClient>>
    BY <1>8 DEF Unsubscribe
  <2>2. flow' \in [Flows -> [pc : Where, generation : Nat]]
    BY <1>5, <2>1, GotoIs DEF ReadInv
  <2>3. NoSelection \in [rev : Nat, generation : Nat, offset : Lengths] /\ NoAck \in Lengths
    BY DEF NoSelection, NoAck
  <2>4. ServerTyped'
    BY <1>2, <1>4, <1>6, <2>1, <2>2, <2>3 DEF ReadInv, ServerTyped
  <2> QED
    BY <1>2, <2>1, <2>4, SilentStep
<1>9. CASE Acknowledge(c, message) /\ AckMatches(message)
  <2>1. /\ message.type = "ack"
        /\ selection' = [selection EXCEPT !.offset = message.offset]
        /\ ack' = NoAck /\ Goto(c, "poll") /\ UNCHANGED <<unavailable, toClient>>
    BY <1>9 DEF Acknowledge
  <2>2. flow' \in [Flows -> [pc : Where, generation : Nat]]
    BY <1>5, <2>1, GotoIs DEF ReadInv
  <2>3. message \in AckMessage
    BY <1>4, <2>1, ChunksAre
  <2>4. selection' \in [rev : Nat, generation : Nat, offset : Lengths] /\ NoAck \in Lengths
    <3>1. message.offset \in Lengths /\ NoAck \in Lengths
      BY <2>3 DEF AckMessage, NoAck
    <3> QED
      BY <1>3, <2>1, <3>1
  <2>5. ServerTyped'
    BY <1>2, <1>4, <1>6, <2>1, <2>2, <2>4 DEF ReadInv, ServerTyped
  <2> QED
    BY <1>2, <2>1, <2>5, SilentStep
<1>10. CASE Acknowledge(c, message) /\ ~AckMatches(message)
  <2>1. Post(c, <<[type |-> "error"]>>, "poll") /\ UNCHANGED <<selection, ack, unavailable>>
    BY <1>10 DEF Acknowledge
  <2>2. PICK messages : messages = <<[type |-> "error"]>>
    OBVIOUS
  <2>3. messages \in Seq(ClientMessage) /\ \A n \in DOMAIN messages : messages[n].type # "chunk"
    <3>1. [type |-> "error"] \in ClientMessage /\ [type |-> "error"].type # "chunk"
      BY DEF ClientMessage
    <3> QED
      BY <2>2, <3>1
  <2>4. Post(c, messages, "poll")
    BY <2>1, <2>2
  <2>5. /\ selection' \in [rev : Nat, generation : Nat, offset : Lengths] /\ ack' \in Lengths
        /\ unavailable' \in Nat
    BY <1>3, <2>1
  <2> QED
    BY <1>2, <1>4, <1>5, <1>6, <2>3, <2>4, <2>5, SendStep
<1> QED
  BY <1>2, <1>7, <1>8, <1>9, <1>10

\* The flow asks for a new start, or announces what it has found.
LEMMA TimeoutKeeps ==
  ASSUME ReadInv, NEW c \in Flows, UNCHANGED diskVars, PollTimeout(c) PROVE ServerKeeps
<1>1. /\ Post(c, <<[type |-> "resync-required", rev |-> selection.rev]>>, "leaving")
      /\ UNCHANGED <<rootVars, dataVars, cancel, job, toServer, link>> /\ job = NoJob
  BY DEF PollTimeout
<1>2. /\ selection \in [rev : Nat, generation : Nat, offset : Lengths] /\ ack \in Lengths
      /\ unavailable \in Nat /\ job \in Jobs /\ toServer \in [Flows -> Seq(ServerMessage)]
  BY DEF ReadInv, ServerTyped
<1>3. PICK messages : messages = <<[type |-> "resync-required", rev |-> selection.rev]>>
  OBVIOUS
<1>4. messages \in Seq(ClientMessage) /\ \A n \in DOMAIN messages : messages[n].type # "chunk"
  <2>1. /\ [type |-> "resync-required", rev |-> selection.rev] \in ClientMessage
        /\ [type |-> "resync-required", rev |-> selection.rev].type # "chunk"
    BY <1>2, MessageTypes DEF Notices
  <2> QED
    BY <1>3, <2>1
<1>5. Looks /\ "leaving" \in Where /\ Post(c, messages, "leaving")
  BY <1>1, <1>3 DEF Looks, diskVars, rootVars, ReadInv, DiskTyped, Where
<1>6. /\ selection' = selection /\ ack' = ack /\ unavailable' = unavailable /\ job' = job
      /\ toServer' = toServer /\ cancel' = cancel /\ link' = link /\ job' = NoJob
  BY <1>1 DEF dataVars
<1> QED
  BY <1>2, <1>4, <1>5, <1>6, SendStep

\* A missing file and a new generation are messages that are no blocks.
LEMMA AnnounceIs ==
  ASSUME ServerTyped, NEW c \in Flows, NEW earlier \in Seq(ClientMessage),
         \A n \in DOMAIN earlier : earlier[n].type # "chunk",
         Unavailable(c, earlier) \/ Reset(c, earlier)
  PROVE  /\ \E messages \in Seq(ClientMessage) :
               (\A n \in DOMAIN messages : messages[n].type # "chunk") /\ Post(c, messages, "top")
         /\ selection' \in [rev : Nat, generation : Nat, offset : Lengths] /\ ack' \in Lengths
         /\ unavailable' \in Nat
<1>1. /\ selection \in [rev : Nat, generation : Nat, offset : Lengths] /\ ack \in Lengths
      /\ unavailable \in Nat /\ selection.rev \in Nat
  BY DEF ServerTyped
<1>2. NoSelection \in [rev : Nat, generation : Nat, offset : Lengths] /\ NoAck \in Lengths
  BY DEF NoSelection, NoAck
<1>3. ASSUME NEW type \in {"file-unavailable", "reset"}
      PROVE  /\ Append(earlier, [type |-> type, rev |-> selection.rev]) \in Seq(ClientMessage)
             /\ \A n \in DOMAIN Append(earlier, [type |-> type, rev |-> selection.rev]) :
                   Append(earlier, [type |-> type, rev |-> selection.rev])[n].type # "chunk"
  <2>1. PICK m \in ClientMessage : m = [type |-> type, rev |-> selection.rev] /\ m.type # "chunk"
    BY <1>1, <1>3, MessageTypes DEF Notices
  <2>2. /\ Append(earlier, m) \in Seq(ClientMessage)
        /\ DOMAIN Append(earlier, m) = 1..Len(earlier) + 1 /\ DOMAIN earlier = 1..Len(earlier)
        /\ \A n \in 1..Len(earlier) + 1 :
              Append(earlier, m)[n] = IF n <= Len(earlier) THEN earlier[n] ELSE m
        /\ Len(earlier) \in Nat
    OBVIOUS
  <2>3. \A n \in 1..Len(earlier) + 1 : n <= Len(earlier) => n \in DOMAIN earlier
    BY <2>2
  <2> QED
    BY <2>1, <2>2, <2>3
<1>4. CASE Unavailable(c, earlier)
  <2>1. /\ unavailable' = selection.rev /\ UNCHANGED <<selection, ack>>
        /\ \/ Post(c, earlier, "top")
           \/ Post(c, Append(earlier, [type |-> "file-unavailable", rev |-> selection.rev]), "top")
    BY <1>4 DEF Unavailable
  <2> QED
    BY <1>1, <1>3, <2>1
<1>5. CASE Reset(c, earlier)
  <2>1. /\ selection' = NoSelection /\ ack' = NoAck /\ unavailable' = unavailable
        /\ Post(c, Append(earlier, [type |-> "reset", rev |-> selection.rev]), "top")
    BY <1>5 DEF Reset
  <2> QED
    BY <1>1, <1>2, <1>3, <2>1
<1> QED
  BY <1>4, <1>5

\* The first message of a poll.
LEMMA AnnouncedIs ==
  ASSUME ServerTyped, NEW renamed \in BOOLEAN
  PROVE  /\ Announced(renamed) \in Seq(ClientMessage)
         /\ \A n \in DOMAIN Announced(renamed) : Announced(renamed)[n].type # "chunk"
<1>1. PICK m : m = [type |-> "file-renamed", rev |-> selection.rev]
  OBVIOUS
<1>2. m \in ClientMessage /\ m.type # "chunk"
  <2>1. "file-renamed" \in Notices \cup {"reset", "file-renamed"} /\ selection.rev \in Nat
    BY DEF ServerTyped
  <2> QED
    BY <1>1, <2>1, MessageTypes
<1>3. Announced(renamed) = <<m>> \/ Announced(renamed) = <<>>
  BY <1>1 DEF Announced
<1>4. <<m>> \in Seq(ClientMessage) /\ \A n \in DOMAIN <<m>> : <<m>>[n].type # "chunk"
  BY <1>2
<1>5. <<>> \in Seq(ClientMessage) /\ DOMAIN <<>> = {}
  OBVIOUS
<1> QED
  BY <1>3, <1>4, <1>5

\* Announcing what has happened to the file keeps what has been read.
LEMMA AnnounceStep ==
  ASSUME ReadInv, UNCHANGED <<diskVars, cancel, link, toServer>>, Looks, NEW c \in Flows,
         NEW renamed \in BOOLEAN,
         Unavailable(c, Announced(renamed)) \/ Reset(c, Announced(renamed)),
         job' = NoJob
  PROVE  ServerKeeps
<1>1. PICK earlier \in Seq(ClientMessage) :
         /\ earlier = Announced(renamed) /\ \A n \in DOMAIN earlier : earlier[n].type # "chunk"
  BY AnnouncedIs DEF ReadInv
<1>2. Unavailable(c, earlier) \/ Reset(c, earlier)
  BY <1>1
<1>3. PICK messages \in Seq(ClientMessage) :
         (\A n \in DOMAIN messages : messages[n].type # "chunk") /\ Post(c, messages, "top")
  BY <1>1, <1>2, AnnounceIs DEF ReadInv
<1>4. /\ selection' \in [rev : Nat, generation : Nat, offset : Lengths] /\ ack' \in Lengths
      /\ unavailable' \in Nat
  BY <1>1, <1>2, AnnounceIs DEF ReadInv
<1>5. "top" \in Where
  BY DEF Where
<1>6. toServer' \in [Flows -> Seq(ServerMessage)]
  BY DEF ReadInv, ServerTyped
<1> QED
  BY <1>3, <1>4, <1>5, <1>6, SendStep

\* A read opens the file and compares it.
LEMMA OpenIs ==
  ASSUME ReadInv, NEW kind \in {"poll", "content"}, NEW f \in 0..Connections, NEW renamed \in BOOLEAN,
         file.at # "gone", Open(kind, f, renamed), seen' = seen, UNCHANGED diskVars
  PROVE  job' \in Jobs /\ JobSound' /\ job'.kind = kind
<1>1. /\ file.ino \in Nat \ {0} /\ file.ino <= version /\ version \in Nat
      /\ Len(file.bytes) \in Lengths /\ Len(file.bytes) \in Nat /\ 0 \in Lengths
  BY DiskNumbers DEF ReadInv
<1>2. job' = [kind |-> kind, step |-> "opened", flow |-> f, renamed |-> renamed, ino |-> file.ino,
              size |-> Len(file.bytes), version |-> version, changed |-> FALSE, start |-> 0,
              end |-> 0]
  BY DEF Open, NoJob
<1>3. job' \in JobFields /\ job'.start <= job'.end /\ job'.end <= job'.size
  BY <1>1, <1>2 DEF JobFields, Steps
<1>4. /\ job'.step = "opened" /\ job'.ino = file.ino /\ job'.size = Len(file.bytes)
      /\ job'.version = version /\ file' = file /\ version' = version
  BY <1>2 DEF diskVars
<1> QED
  BY <1>1, <1>2, <1>3, <1>4 DEF Jobs, JobSound

\* A read that has looked at the anchor is sound.
LEMMA CompareIs ==
  ASSUME ReadInv, NEW kind \in {"poll", "content"}, Compare(kind), seen' = seen, UNCHANGED diskVars
  PROVE  job' \in Jobs /\ JobSound' /\ job'.kind = job.kind
<1>1. /\ job.step = "opened" /\ job \in Jobs /\ job \in JobFields
      /\ job' = [job EXCEPT !.step = "compared", !.changed = Differs(job.ino, job.size, Held)]
  BY DEF Compare, ReadInv, ServerTyped, Jobs
<1>2. PICK changed \in BOOLEAN : changed = Differs(job.ino, job.size, Held)
  BY DEF Differs
<1>3. job' = [job EXCEPT !.step = "compared", !.changed = changed]
  BY <1>1, <1>2
<1>4. /\ job' \in JobFields /\ job'.step = "compared" /\ job'.changed = changed
      /\ job'.start = job.start /\ job'.end = job.end /\ job'.size = job.size
      /\ job'.ino = job.ino /\ job'.version = job.version /\ job'.kind = job.kind
  BY <1>1, <1>3 DEF JobFields, Steps
<1>5. job' \in Jobs
  BY <1>1, <1>4 DEF Jobs
<1>6. /\ Held \in Bytes /\ job.ino \in Nat \ {0} /\ job.size \in Nat
      /\ job.version = version => Held = file.bytes /\ job.size <= Len(file.bytes)
  BY <1>1, HeldIs DEF ReadInv
<1>7. /\ job.ino # 0 /\ job.ino <= job.version /\ job.version <= version
      /\ job.version = version =>
            file.at # "gone" /\ file.ino = job.ino /\ job.size <= Len(file.bytes)
  BY <1>1 DEF ReadInv, JobSound
<1>8. seen.size \in Nat /\ Len(file.bytes) \in Nat
  BY DiskNumbers DEF ReadInv
<1>9. seen.generation = 0 => changed
  BY <1>2, <1>7 DEF ReadInv, SeenSound, Differs
<1>10. ~changed => seen.size <= job.size
  BY <1>2, <1>6, <1>8 DEF Differs
<1>11. ~changed /\ job.version = version => ~Changed
  <2>1. SUFFICES ASSUME ~changed, job.version = version PROVE ~Changed
    OBVIOUS
  <2>2. ~Differs(job.ino, job.size, file.bytes) /\ file.ino = job.ino
    BY <1>2, <1>6, <1>7, <2>1
  <2>3. ~(Len(file.bytes) < seen.size)
    BY <1>6, <1>8, <1>10, <2>1
  <2> QED
    BY <2>2, <2>3 DEF Changed, Differs
<1>12. file' = file /\ version' = version /\ Changed' = Changed
  BY DEF diskVars, Changed, Differs
<1> QED
  BY <1>4, <1>5, <1>7, <1>9, <1>10, <1>11, <1>12 DEF JobSound

\* A read that has compared the file and recorded what it sees.
LEMMA LockIs ==
  ASSUME ReadInv, job.step = "compared", seen' = Recorded, UNCHANGED diskVars,
         NEW start \in Lengths, NEW end \in Lengths, start <= end, end <= job.size, Lock(start, end)
  PROVE  job' \in Jobs /\ JobSound' /\ job'.kind = job.kind /\ job'.flow = job.flow
<1>1. job \in Jobs /\ job \in JobFields
  BY DEF ReadInv, ServerTyped, Jobs
<1>2. job' = [job EXCEPT !.step = "recorded", !.start = start, !.end = end]
  BY DEF Lock
<1>3. /\ job' \in JobFields /\ job'.step = "recorded" /\ job'.start = start /\ job'.end = end
      /\ job'.size = job.size /\ job'.kind = job.kind /\ job'.flow = job.flow
  BY <1>1, <1>2 DEF JobFields, Steps
<1>4. seen'.size = job.size /\ seen'.generation # 0
  BY <1>1, Seen DEF ReadInv, diskVars
<1> QED
  BY <1>3, <1>4 DEF Jobs, JobSound

\* A step of a flow that sends nothing.
LEMMA QuietStep ==
  ASSUME ReadInv, NEW c \in Flows, UNCHANGED <<diskVars, toClient, dataVars, cancel, toServer, link>>,
         Looks, job' \in Jobs, JobSound', job'.kind = "content" => job.kind = "content",
         flow' \in [Flows -> [pc : Where, generation : Nat]]
  PROVE  ServerKeeps
<1>1. ServerTyped'
  BY DEF ReadInv, ServerTyped, dataVars
<1>2. DiskTyped' /\ SeenSound' /\ Keeps
  BY LookTyped, LookKeeps DEF ReadInv, ServerTyped, Keeps
<1>3. BlocksSound'
  <2> SUFFICES ASSUME NEW d \in Flows, NEW n \in DOMAIN toClient[d], toClient[d][n].type = "chunk"
               PROVE  ReadSound(toClient[d][n])'
    BY DEF BlocksSound
  <2>1. PICK m : m = toClient[d][n]
    OBVIOUS
  <2>2. m \in ChunkMessage /\ ReadSound(m)
    BY SMTT(30), <2>1, ChunksAre DEF ReadInv, BlocksSound, ServerTyped
  <2>3. ReadSound(m)' /\ toClient'[d][n] = m
    BY <1>2, <2>1, <2>2, KeepsAll
  <2> QED
    BY <2>3
<1> QED
  BY <1>1, <1>2, <1>3 DEF ServerKeeps

\* The file is opened for a block, or it is missing.
LEMMA OpenKeeps ==
  ASSUME ReadInv, NEW c \in Flows, UNCHANGED diskVars, PollOpen(c) PROVE ServerKeeps
<1>1. \/ Unavailable(c, Announced(Relocates)) /\ UNCHANGED job
      \/ /\ file.at = Located /\ Open("poll", c, Relocates)
         /\ Goto(c, "reading") /\ UNCHANGED <<dataVars, toClient>>
  BY DEF PollOpen
<1>2. node' = Located /\ UNCHANGED <<seen, cancel, toServer, link>> /\ job = NoJob
  BY DEF PollOpen
<1>3. PICK renamed \in BOOLEAN : renamed = Relocates
  BY DEF Relocates
<1>4. Located \in {"active", "final"} /\ Looks
  BY <1>2 DEF Looks, Located, ReadInv, DiskTyped, diskVars
<1>5. CASE Unavailable(c, Announced(Relocates)) /\ UNCHANGED job
  <2>1. Unavailable(c, Announced(renamed)) \/ Reset(c, Announced(renamed))
    BY <1>3, <1>5
  <2> QED
    BY <1>2, <1>4, <1>5, <2>1, AnnounceStep
<1>6. CASE /\ file.at = Located /\ Open("poll", c, Relocates)
           /\ Goto(c, "reading") /\ UNCHANGED <<dataVars, toClient>>
  <2>1. file.at # "gone" /\ Open("poll", c, renamed) /\ c \in 0..Connections
    BY <1>3, <1>4, <1>6 DEF Flows
  <2>2. job' \in Jobs /\ JobSound' /\ job'.kind = "poll"
    BY <1>2, <2>1, OpenIs
  <2>3. flow' \in [Flows -> [pc : Where, generation : Nat]]
    <3>1. "reading" \in Where
      BY DEF Where
    <3> QED
      BY <1>6, <3>1, GotoIs DEF ReadInv
  <2> QED
    BY <1>2, <1>4, <1>6, <2>2, <2>3, QuietStep
<1> QED
  BY <1>1, <1>5, <1>6

\* It is compared, ...
LEMMA CompareKeeps ==
  ASSUME ReadInv, NEW c \in Flows, UNCHANGED diskVars, PollCompare(c) PROVE ServerKeeps
<1>1. Compare("poll") /\ UNCHANGED <<rootVars, dataVars, cancel, flow, toServer, toClient, link>>
  BY DEF PollCompare
<1>2. Looks
  BY <1>1 DEF Looks, diskVars, rootVars, ReadInv, DiskTyped
<1>3. job' \in Jobs /\ JobSound' /\ job'.kind = job.kind
  BY <1>1, CompareIs DEF rootVars
<1>4. flow' \in [Flows -> [pc : Where, generation : Nat]]
  BY <1>1 DEF ReadInv, ServerTyped
<1> QED
  BY <1>1, <1>2, <1>3, <1>4, QuietStep

\* ... and found to be of another generation, or the file of the selection.
LEMMA RecordKeeps ==
  ASSUME ReadInv, NEW c \in Flows, UNCHANGED diskVars, PollRecord(c) PROVE ServerKeeps
<1>1. /\ job.kind = "poll" /\ job.step = "compared" /\ seen' = Recorded
      /\ UNCHANGED <<node, cancel, toServer, link>>
      /\ \/ Reset(c, Announced(job.renamed)) /\ job' = NoJob
         \/ /\ selection.offset <= job.size
            /\ Lock(selection.offset, Smaller(selection.offset + Chunk, job.size))
            /\ UNCHANGED <<dataVars, flow, toClient>>
  BY DEF PollRecord
<1>2. Looks
  BY <1>1 DEF Looks, diskVars, ReadInv, DiskTyped
<1>3. job \in JobFields /\ job.renamed \in BOOLEAN /\ job.size \in Lengths /\ job.size \in Nat
  BY DEF ReadInv, ServerTyped, Jobs, JobFields
<1>4. CASE Reset(c, Announced(job.renamed)) /\ job' = NoJob
  <2>1. PICK renamed \in BOOLEAN : renamed = job.renamed
    BY <1>3
  <2>2. Unavailable(c, Announced(renamed)) \/ Reset(c, Announced(renamed))
    BY <1>4, <2>1
  <2> QED
    BY <1>1, <1>2, <1>4, <2>2, AnnounceStep
<1>5. CASE /\ selection.offset <= job.size
           /\ Lock(selection.offset, Smaller(selection.offset + Chunk, job.size))
           /\ UNCHANGED <<dataVars, flow, toClient>>
  <2>1. PICK start, end :
           start = selection.offset /\ end = Smaller(selection.offset + Chunk, job.size)
    OBVIOUS
  <2>2. start \in Lengths /\ Chunk \in Nat
    BY <2>1 DEF ReadInv, ServerTyped
  <2>3. end \in Lengths /\ start <= end /\ end <= job.size
    <3>1. start \in Nat /\ start <= job.size /\ job.size <= MaxLen /\ MaxLen \in Nat
      BY <1>3, <1>5, <2>1, <2>2
    <3> QED
      BY SMTT(30), <1>3, <2>1, <2>2, <3>1 DEF Smaller
  <2>4. Lock(start, end)
    BY <1>5, <2>1
  <2>5. job' \in Jobs /\ JobSound' /\ job'.kind = job.kind
    BY <1>1, <2>2, <2>3, <2>4, LockIs
  <2>6. flow' \in [Flows -> [pc : Where, generation : Nat]]
    BY <1>5 DEF ReadInv, ServerTyped
  <2> QED
    BY <1>1, <1>2, <1>5, <2>5, <2>6, QuietStep
<1> QED
  BY <1>1, <1>4, <1>5

\* The block is read: of the file that was opened, or nothing is sent.
LEMMA ReadKeeps ==
  ASSUME ReadInv, NEW c \in Flows, UNCHANGED diskVars, PollRead(c) PROVE ServerKeeps
<1>1. /\ job.kind = "poll" /\ job.step = "recorded" /\ job' = NoJob
      /\ UNCHANGED <<rootVars, cancel, toServer, link>>
  BY DEF PollRead
<1>2. /\ selection \in [rev : Nat, generation : Nat, offset : Lengths] /\ ack \in Lengths
      /\ unavailable \in Nat /\ job \in Jobs /\ toServer \in [Flows -> Seq(ServerMessage)]
      /\ selection.rev \in Nat /\ seen.size = job.size
  BY <1>1 DEF ReadInv, ServerTyped, JobSound
<1>3. Looks
  BY <1>1 DEF Looks, diskVars, rootVars, ReadInv, DiskTyped
<1>4. job'.kind = "none" /\ job' \in Jobs /\ JobSound'
  BY <1>1, JobFree
<1>5. "top" \in Where
  BY DEF Where
<1>6. PICK renamed \in BOOLEAN : renamed = job.renamed
  BY <1>2 DEF Jobs, JobFields
<1>7. CASE Unavailable(c, Announced(job.renamed)) \/ Reset(c, Announced(job.renamed))
  <2>1. Unavailable(c, Announced(renamed)) \/ Reset(c, Announced(renamed))
    BY <1>6, <1>7
  <2> QED
    BY <1>1, <1>3, <2>1, AnnounceStep
<1>8. CASE ~(Unavailable(c, Announced(job.renamed)) \/ Reset(c, Announced(job.renamed)))
  <2>1. PICK resumed, block, blocks :
           /\ Outcome = "ok" /\ unavailable' = 0 /\ selection' = selection
           /\ resumed = IF unavailable # 0
                        THEN <<[type |-> "subscribed", rev |-> selection.rev]>> ELSE <<>>
           /\ block = [type |-> "chunk", rev |-> selection.rev, generation |-> seen.generation,
                       start |-> job.start, bytes |-> Segment(file.bytes, job.start, job.end)]
           /\ blocks = IF job.end = job.start THEN <<>> ELSE <<block>>
           /\ Post(c, Announced(job.renamed) \o resumed \o blocks, "top")
           /\ ack' = IF job.end = job.start THEN ack ELSE job.end
    BY <1>8 DEF PollRead
  <2>2. /\ job.start \in Nat /\ job.end \in 0..MaxLen /\ job.size \in Nat /\ job.start <= job.end
        /\ job.end <= job.size /\ job.size <= Len(file.bytes)
        /\ file.bytes \in Bytes /\ Len(file.bytes) \in Nat /\ seen.generation \in Nat
    <3>1. job.start \in Nat /\ job.end \in 0..MaxLen /\ job.size \in Nat /\ job.start <= job.end
          /\ job.end <= job.size
      BY <1>2 DEF Jobs, JobFields
    <3>2. file.bytes \in Bytes /\ Len(file.bytes) \in Nat /\ seen.generation \in Nat
      BY DiskNumbers DEF ReadInv
    <3> QED
      BY <2>1, <3>1, <3>2 DEF Outcome
  <2>3. /\ Segment(file.bytes, job.start, job.end) \in Bytes
        /\ Len(Segment(file.bytes, job.start, job.end)) = job.end - job.start
    <3>1. job.end \in 0..Len(file.bytes) /\ job.start \in 0..job.end
      BY <2>2
    <3> QED
      BY <2>2, <3>1, SegmentIs
  <2>4. /\ block.type = "chunk" /\ block.generation = seen.generation /\ block.start = job.start
        /\ block.bytes = Segment(file.bytes, job.start, job.end) /\ block.rev = selection.rev
    BY <2>1
  <2>5. block \in ChunkMessage /\ block \in ClientMessage
    <3>1. End(block) = job.end
      BY SMTT(30), <2>2, <2>3, <2>4 DEF End
    <3>2. selection.rev \in Nat /\ seen.generation \in Nat /\ job.start \in Lengths
      BY SMTT(30), <1>2, <2>2
    <3>3. block \in [type : {"chunk"}, rev : Nat, generation : Nat, start : Lengths, bytes : Bytes]
      <4>1. block = [type |-> "chunk", rev |-> selection.rev, generation |-> seen.generation,
                     start |-> job.start, bytes |-> Segment(file.bytes, job.start, job.end)]
        BY <2>1
      <4> QED
        BY <2>3, <3>2, <4>1
    <3> QED
      BY <2>2, <3>1, <3>3 DEF ChunkMessage, ClientMessage
  <2>6. ReadSound(block)
    <3>1. PICK x \in Readings : x = [generation |-> block.generation, start |-> block.start, bytes |-> block.bytes]
      BY <2>5, AreReadings
    <3>2. ReadSound(x)
      <4>1. /\ x.generation = seen.generation /\ x.start = job.start
            /\ x.bytes = Segment(file.bytes, job.start, job.end)
        BY <2>4, <3>1
      <4>2. job.start \in 0..job.end /\ job.end \in 0..seen.size /\ seen.size <= Len(file.bytes)
        BY <1>2, <2>2
      <4> QED
        BY <4>1, <4>2, NewReading DEF ReadInv
    <3> QED
      BY <2>5, <3>1, <3>2, AreReadings
  <2>7. DiskTyped' /\ SeenSound' /\ Keeps
    BY <1>3, LookTyped, LookKeeps DEF ReadInv, ServerTyped, Keeps
  <2>8. ReadSound(block)'
    BY <2>5, <2>6, <2>7, KeepsAll
  <2>9. PICK announced \in Seq(ClientMessage) :
           announced = Announced(job.renamed) /\ \A n \in DOMAIN announced : announced[n].type # "chunk"
    BY <1>6, AnnouncedIs DEF ReadInv
  <2>10. PICK m \in ClientMessage : m = [type |-> "subscribed", rev |-> selection.rev] /\ m.type # "chunk"
    BY <1>2, MessageTypes DEF Notices
  <2>11. resumed \in Seq(ClientMessage) /\ \A n \in DOMAIN resumed : resumed[n].type # "chunk"
    <3>1. <<m>> \in Seq(ClientMessage) /\ \A n \in DOMAIN <<m>> : <<m>>[n].type # "chunk"
      BY <2>10
    <3>2. <<>> \in Seq(ClientMessage) /\ DOMAIN <<>> = {}
      OBVIOUS
    <3>3. resumed = <<m>> \/ resumed = <<>>
      BY <2>1, <2>10
    <3> QED
      BY <3>1, <3>2, <3>3
  <2>12. blocks \in Seq(ClientMessage) /\ \A n \in DOMAIN blocks : blocks[n] = block
    <3>1. <<block>> \in Seq(ClientMessage) /\ \A n \in DOMAIN <<block>> : <<block>>[n] = block
      BY <2>5
    <3>2. <<>> \in Seq(ClientMessage) /\ DOMAIN <<>> = {}
      OBVIOUS
    <3>3. blocks = <<block>> \/ blocks = <<>>
      BY <2>1
    <3> QED
      BY <3>1, <3>2, <3>3
  <2>13. PICK notices \in Seq(ClientMessage) : notices = announced \o resumed
    <3>1. announced \o resumed \in Seq(ClientMessage)
      BY <2>11, ConcatProperties
    <3> QED
      BY <3>1
  <2>14. \A n \in DOMAIN notices : notices[n].type # "chunk"
    BY SMTT(30), <2>9, <2>11, <2>13, Joined
  <2>15. PICK messages \in Seq(ClientMessage) : messages = notices \o blocks
    <3>1. notices \o blocks \in Seq(ClientMessage)
      BY <2>12, ConcatProperties
    <3> QED
      BY <3>1
  <2>16. \A n \in DOMAIN messages : messages[n].type = "chunk" => messages[n] = block
    BY SMTT(30), <2>12, <2>14, <2>15, Joined
  <2>17. \A n \in DOMAIN messages : messages[n].type = "chunk" => ReadSound(messages[n])'
    BY <2>8, <2>16
  <2>18. Post(c, messages, "top")
    BY <2>1, <2>9, <2>13, <2>15
  <2>19. BlocksSound'
    BY <1>5, <2>7, <2>17, <2>18, PostSound DEF ReadInv
  <2>20. /\ flow' \in [Flows -> [pc : Where, generation : Nat]]
         /\ toClient' \in [Flows -> Seq(ClientMessage)]
    BY <1>5, <2>18, PostIs DEF ReadInv
  <2>21. /\ selection' \in [rev : Nat, generation : Nat, offset : Lengths] /\ ack' \in Lengths
         /\ unavailable' \in Nat
    BY <1>2, <2>1, <2>2
  <2>22. ServerTyped'
    BY <1>1, <1>4, <2>20, <2>21 DEF ReadInv, ServerTyped
  <2> QED
    BY <1>4, <2>7, <2>19, <2>22 DEF ServerKeeps
<1> QED
  BY <1>7, <1>8

\* A step of the server that leaves the store alone.
LEMMA StoreStays ==
  ASSUME ReadInv, ServerKeeps, UNCHANGED <<socket, viewVars, requests>> PROVE ReadInv'
<1>1. /\ StoreTyped /\ ReadSound(window) /\ RepliesSound /\ NewerSound
      /\ DiskTyped' /\ ServerTyped' /\ SeenSound' /\ JobSound' /\ BlocksSound' /\ Keeps
      /\ job'.kind = "content" => job.kind = "content"
  BY DEF ReadInv, ServerKeeps
<1>2. /\ socket' = socket /\ revision' = revision /\ cursor' = cursor /\ window' = window
      /\ following' = following /\ newer' = newer /\ status' = status /\ requests' = requests
  BY DEF viewVars
<1>3. StoreTyped' /\ NewerSound'
  BY <1>1, <1>2 DEF StoreTyped, NewerSound, Pending
<1>4. ReadSound(window)'
  <2>1. PICK w : w = window
    OBVIOUS
  <2>2. ReadSound(w)'
    BY <1>1, <2>1, KeepsAll DEF StoreTyped
  <2> QED
    BY <1>2, <2>1, <2>2
<1>5. RepliesSound'
  <2> SUFFICES ASSUME NEW n \in DOMAIN requests' PROVE ReadSound(requests[n].reply)'
    BY DEF RepliesSound
  <2>1. PICK r : r = requests[n].reply
    OBVIOUS
  <2>2. r \in Replies /\ ReadSound(r)
    BY <1>1, <1>2, <2>1, AreReadings DEF StoreTyped, RepliesSound
  <2>3. ReadSound(r)'
    BY <1>1, <2>2, KeepsAll
  <2> QED
    BY <1>2, <2>1, <2>3
<1> QED
  BY <1>1, <1>3, <1>4, <1>5 DEF ReadInv

\* The steps of the flow keep what has been read.
LEMMA FlowKeeps ==
  ASSUME ReadInv, NEW c \in Flows, FlowStep(c) PROVE ReadInv'
<1>1. UNCHANGED <<diskVars, socket, viewVars, requests>>
  BY DEF FlowStep
<1>2. CASE Receive(c)
  BY <1>1, <1>2, ReceiveKeeps, StoreStays
<1>3. CASE PollTimeout(c)
  BY <1>1, <1>3, TimeoutKeeps, StoreStays
<1>4. CASE PollOpen(c)
  BY <1>1, <1>4, OpenKeeps, StoreStays
<1>5. CASE PollCompare(c) \/ PollRecord(c) \/ PollRead(c)
  BY <1>1, <1>5, CompareKeeps, RecordKeeps, ReadKeeps, StoreStays
<1>6. CASE \/ Begin(c) \/ Top(c) \/ Interrupted(c) \/ PollBusy(c) \/ PollNothing(c)
           \/ Leave(c) \/ Tidy(c) \/ Close(c)
  BY <1>1, <1>6, TurnKeeps, StoreStays
<1> QED
  BY <1>2, <1>3, <1>4, <1>5, <1>6 DEF FlowStep

\* The steps of the file, too.
LEMMA FileStepKeeps ==
  ASSUME ReadInv, FileStep PROVE ReadInv'
<1>1. DiskTyped' /\ SeenSound' /\ JobSound' /\ Keeps
  BY FileTyped, FileSeen, FileJob, FileKeeps DEF ReadInv, ServerTyped, Keeps
<1>2. UNCHANGED <<rootVars, dataVars, cancel, flow, job, toServer, toClient, link, socket, viewVars, requests>>
  BY DEF FileStep
<1>3. ServerTyped'
  BY <1>2 DEF ReadInv, ServerTyped, rootVars, dataVars
<1>4. ASSUME NEW d \in Flows, NEW n \in DOMAIN toClient'[d], toClient'[d][n].type = "chunk"
      PROVE  ReadSound(toClient[d][n])'
  <2>1. PICK m : m = toClient[d][n]
    OBVIOUS
  <2>2. toClient \in [Flows -> Seq(ClientMessage)] /\ toClient' = toClient
    BY <1>2 DEF ReadInv, ServerTyped
  <2>3. m \in ChunkMessage /\ ReadSound(m)
    BY <1>4, <2>1, <2>2, ChunksAre DEF ReadInv, BlocksSound
  <2>4. ReadSound(m)'
    BY <1>1, <2>3, KeepsAll
  <2> QED
    BY <2>1, <2>2, <2>4
<1>5. ServerKeeps
  BY <1>1, <1>2, <1>3, <1>4 DEF ServerKeeps, BlocksSound
<1> QED
  BY <1>2, <1>5, StoreStays
-----------------------------------------------------------------------------
(* Steps of the reads over HTTP *)

\* Nothing has been read in an empty reading.
LEMMA EmptyReading ==
  ASSUME DiskTyped, NEW x \in Readings, x.generation = 0, x.start = 0, x.bytes = <<>>
  PROVE  ReadSound(x)
<1>1. /\ file.bytes \in Bytes /\ Len(file.bytes) \in Nat /\ seen.generation \in Nat /\ seen.size \in Nat
  BY DiskNumbers
<1>2. End(x) = 0
  BY DEF End
<1>3. Segment(file.bytes, 0, 0) \in Bytes /\ Len(Segment(file.bytes, 0, 0)) = 0
  <2>1. 0 \in 0..Len(file.bytes) /\ 0 \in 0..0 /\ 0 - 0 = 0
    BY <1>1
  <2> QED
    BY <1>1, <2>1, SegmentIs
<1>4. Segment(file.bytes, 0, 0) = <<>>
  BY <1>3 DEF Bytes
<1> QED
  BY <1>1, <1>2, <1>4 DEF ReadSound, Holds

\* Answering the head of the queue.
LEMMA AnswerIs ==
  ASSUME requests \in Seq(Requests), requests # <<>>, NEW reply \in Replies, Answer(reply)
  PROVE  /\ requests' \in Seq(Requests) /\ requests' # <<>> /\ DOMAIN requests' = DOMAIN requests
         /\ requests'[1].reply = reply
         /\ \A n \in DOMAIN requests : n # 1 => requests'[n] = requests[n]
<1>1. /\ requests' = [requests EXCEPT ![1] = [requests[1] EXCEPT !.reply = reply]]
  BY Zenon DEF Answer
<1>2. 1 \in DOMAIN requests /\ Len(requests) \in Nat /\ DOMAIN requests = 1..Len(requests)
  OBVIOUS
<1>3. [requests[1] EXCEPT !.reply = reply] \in Requests
  <2>1. requests[1] \in Requests
    BY <1>2
  <2> QED
    BY <2>1 DEF Requests
<1>4. [requests[1] EXCEPT !.reply = reply].reply = reply
  <2>1. requests[1] \in Requests
    BY <1>2
  <2>2. "reply" \in DOMAIN requests[1]
    BY <2>1 DEF Requests
  <2> QED
    BY <2>2
<1> QED
  BY <1>1, <1>2, <1>3, <1>4

\* A step of a read over HTTP, when it keeps the queue.
LEMMA HttpSound ==
  ASSUME ReadInv, Looks,
         UNCHANGED <<dataVars, cancel, flow, toServer, toClient, link, socket, viewVars>>,
         job' \in Jobs, JobSound',
         requests' \in Seq(Requests), job'.kind = "content" => Pending',
         RepliesSound'
  PROVE  ReadInv'
<1>1. DiskTyped' /\ SeenSound' /\ Keeps
  BY LookTyped, LookKeeps DEF ReadInv, ServerTyped, Keeps
<1>2. ServerTyped'
  BY DEF ReadInv, ServerTyped, dataVars
<1>3. /\ socket' = socket /\ revision' = revision /\ cursor' = cursor /\ window' = window
      /\ following' = following /\ newer' = newer /\ status' = status
  BY DEF viewVars
<1>4. StoreTyped' /\ NewerSound'
  BY <1>3 DEF ReadInv, StoreTyped, NewerSound
<1>5. ReadSound(window)'
  <2>1. PICK w : w = window
    OBVIOUS
  <2>2. ReadSound(w)'
    BY <1>1, <2>1, KeepsAll DEF StoreTyped, ReadInv
  <2> QED
    BY <1>3, <2>1, <2>2
<1>6. BlocksSound'
  <2> SUFFICES ASSUME NEW d \in Flows, NEW n \in DOMAIN toClient'[d], toClient'[d][n].type = "chunk"
               PROVE  ReadSound(toClient[d][n])'
    BY DEF BlocksSound
  <2>1. PICK m : m = toClient[d][n]
    OBVIOUS
  <2>2. m \in ChunkMessage /\ ReadSound(m)
    BY SMTT(30), <2>1, ChunksAre DEF ReadInv, BlocksSound, ServerTyped
  <2>3. ReadSound(m)'
    BY <1>1, <2>2, KeepsAll
  <2> QED
    BY <2>1, <2>3
<1> QED
  BY <1>1, <1>2, <1>4, <1>5, <1>6 DEF ReadInv

\* The other replies stay sound, and so does the new one.
LEMMA AnswerSound ==
  ASSUME ReadInv, Keeps, requests # <<>>, NEW reply \in Replies, Answer(reply), ReadSound(reply)'
  PROVE  RepliesSound'
<1>1. requests \in Seq(Requests)
  BY DEF ReadInv, StoreTyped
<1>2. /\ DOMAIN requests' = DOMAIN requests /\ requests'[1].reply = reply
      /\ \A n \in DOMAIN requests : n # 1 => requests'[n] = requests[n]
  BY <1>1, AnswerIs
<1> SUFFICES ASSUME NEW n \in DOMAIN requests PROVE ReadSound(requests[n].reply)'
  BY <1>2 DEF RepliesSound
<1>3. CASE n = 1
  <2>1. requests'[n].reply = reply
    BY <1>2, <1>3
  <2> QED
    BY <2>1
<1>4. CASE n # 1
  <2>1. PICK r : r = requests[n].reply
    OBVIOUS
  <2>2. r \in Replies /\ ReadSound(r)
    BY <1>1, <2>1, AreReadings DEF ReadInv, RepliesSound
  <2>3. ReadSound(r)' /\ requests'[n].reply = r
    BY <1>2, <1>4, <2>1, <2>2, KeepsAll
  <2> QED
    BY <2>3
<1> QED
  BY <1>3, <1>4

\* A failure holds no bytes.
LEMMA FailureIs ==
  ASSUME ReadInv, NEW code \in Codes
  PROVE  Failure(code) \in Replies /\ ReadSound(Failure(code))
<1>1. PICK x : x = [generation |-> 0, start |-> 0, bytes |-> <<>>]
  OBVIOUS
<1>2. <<>> \in Bytes /\ 0 \in Lengths /\ 0 <= MaxLen
  BY DEF Bytes
<1>3. x \in Readings
  BY <1>1, <1>2 DEF Readings, End
<1>4. ReadSound(x)
  BY <1>1, <1>3, EmptyReading DEF ReadInv
<1>5. PICK f : f = Failure(code)
  OBVIOUS
<1>6. f = [code |-> code, generation |-> 0, start |-> 0, bytes |-> <<>>]
  BY <1>5 DEF Failure, NoReply
<1>7. f \in Replies
  BY <1>2, <1>6 DEF Replies, End
<1>8. ReadSound(f)
  BY <1>1, <1>4, <1>6, <1>7, AreReadings
<1> QED
  BY <1>5, <1>7, <1>8

\* A read over HTTP that fails.
LEMMA FailsSound ==
  ASSUME ReadInv, Looks,
         UNCHANGED <<dataVars, cancel, flow, toServer, toClient, link, socket, viewVars>>,
         requests # <<>>, NEW code \in Codes, NEW f, f = Failure(code), Answer(f), job' \in Jobs,
         job'.kind # "content", job' = NoJob \/ (seen' = seen /\ job' = job)
  PROVE  ReadInv'
<1>1. requests \in Seq(Requests)
  BY DEF ReadInv, StoreTyped
<1>2. f \in Replies /\ ReadSound(f)
  BY FailureIs
<1>3. Keeps
  BY LookKeeps DEF ReadInv, ServerTyped, Keeps
<1>4. ReadSound(f)' /\ requests' \in Seq(Requests)
  BY <1>1, <1>2, <1>3, KeepsAll, AnswerIs
<1>5. RepliesSound'
  BY <1>2, <1>3, <1>4, AnswerSound
<1>6. JobSound'
  BY JobRests, JobFree DEF ReadInv, Looks
<1> QED
  BY <1>4, <1>5, <1>6, HttpSound

\* A read over HTTP that goes on.
LEMMA GoesOn ==
  ASSUME ReadInv, Looks,
         UNCHANGED <<dataVars, cancel, flow, toServer, toClient, link, socket, viewVars, requests>>,
         job' \in Jobs, JobSound', job'.kind = "content" => Pending
  PROVE  ReadInv'
<1>1. requests \in Seq(Requests) /\ requests' = requests /\ (job'.kind = "content" => Pending')
  BY DEF ReadInv, StoreTyped, Pending
<1>2. Keeps
  BY LookKeeps DEF ReadInv, ServerTyped, Keeps
<1>3. RepliesSound'
  <2> SUFFICES ASSUME NEW n \in DOMAIN requests PROVE ReadSound(requests[n].reply)'
    BY <1>1 DEF RepliesSound
  <2>1. PICK r : r = requests[n].reply
    OBVIOUS
  <2>2. r \in Replies /\ ReadSound(r)
    BY <1>1, <2>1, AreReadings DEF ReadInv, RepliesSound
  <2>3. ReadSound(r)' /\ requests'[n].reply = r
    BY <1>1, <1>2, <2>1, <2>2, KeepsAll
  <2> QED
    BY <2>3
<1> QED
  BY <1>1, <1>3, HttpSound

\* A read over HTTP: opened, compared, recorded, then read if the file is still the one opened.
LEMMA HttpKeeps == ASSUME ReadInv, HttpStep PROVE ReadInv'
<1>1. /\ UNCHANGED <<dataVars, cancel, flow, toServer, toClient, link, socket, viewVars>>
      /\ file' = file /\ version' = version /\ orphan' = orphan /\ UNCHANGED diskVars
  BY DEF HttpStep, diskVars
<1>2. /\ requests \in Seq(Requests) /\ job \in Jobs
      /\ node \in {"active", "final"}
      /\ (job.step = "recorded" => seen.size = job.size /\ seen.generation # 0)
      /\ (job.kind = "content" => requests # <<>> /\ Pending)
  BY DEF ReadInv, StoreTyped, ServerTyped, DiskTyped, Pending, JobSound
<1>3. NoJob \in Jobs /\ NoJob.kind = "none"
  BY JobFree
<1>4. Codes = {"none", "ok", "NOT_FOUND", "GENERATION_CHANGED", "CURSOR_INVALID", "LIMIT"}
  BY DEF Codes
<1>6. CASE ContentBusy
  <2>1. Answer(Failure("LIMIT")) /\ UNCHANGED <<rootVars, job>> /\ requests # <<>> /\ job.kind = "poll"
    BY <1>6 DEF ContentBusy, Pending
  <2>2. Looks
    BY <1>1, <1>2, <2>1 DEF Looks, rootVars
  <2>3. PICK f : f = Failure("LIMIT") /\ Answer(f)
    BY <2>1
  <2>4. job' \in Jobs /\ job'.kind = "poll" /\ seen' = seen /\ job' = job /\ "LIMIT" \in Codes
    BY <1>2, <1>4, <2>1 DEF rootVars
  <2> QED
    BY <1>1, <2>1, <2>2, <2>3, <2>4, FailsSound
<1>7. CASE ContentRead
  <2>1. /\ job.kind = "content" /\ job' = NoJob /\ UNCHANGED rootVars /\ requests # <<>>
        /\ seen.size = job.size
    BY <1>2, <1>7 DEF ContentRead
  <2>2. Looks
    BY <1>1, <1>2, <2>1 DEF Looks, rootVars
  <2>3. CASE Outcome = "ok"
    <3>1. PICK r : r = [code |-> "ok", generation |-> seen.generation, start |-> job.start,
                        bytes |-> Segment(file.bytes, job.start, job.end)]
      OBVIOUS
    <3>2. Answer(r)
      BY <1>7, <2>3, <3>1 DEF ContentRead
    <3>3. /\ job.start \in 0..job.end /\ job.start \in Lengths /\ job.end \in 0..seen.size
          /\ seen.size <= Len(file.bytes) /\ job.end <= MaxLen /\ job.end \in Nat
          /\ job.end \in 0..Len(file.bytes)
      <4>1. job.start \in Lengths /\ job.end \in Lengths /\ job.size \in Lengths /\ job.start <= job.end
            /\ job.end <= job.size /\ seen.size = job.size
        BY <1>2, <2>1 DEF Jobs, JobFields
      <4>2. job.size <= Len(file.bytes) /\ Len(file.bytes) \in Nat
        <5>1. ~(Len(file.bytes) < job.size)
          BY <2>3 DEF Outcome
        <5>2. Len(file.bytes) \in Nat /\ job.size \in Nat
          BY <4>1, DiskNumbers DEF ReadInv
        <5> QED
          BY <5>1, <5>2
      <4> QED
        BY <4>1, <4>2
    <3>4. /\ Segment(file.bytes, job.start, job.end) \in Bytes
          /\ Len(Segment(file.bytes, job.start, job.end)) = job.end - job.start
          /\ seen.generation \in Nat
      BY <3>3, SegmentIs, DiskNumbers DEF ReadInv
    <3>5. r \in Replies
      <4>1. End(r) = job.end
        BY <3>1, <3>3, <3>4 DEF End
      <4>2. r \in [code : Codes, generation : Nat, start : Lengths, bytes : Bytes]
        BY <1>4, <3>1, <3>3, <3>4
      <4> QED
        BY <3>3, <4>1, <4>2 DEF Replies
    <3>6. ReadSound(r)
      <4>1. PICK x \in Readings : x = [generation |-> r.generation, start |-> r.start, bytes |-> r.bytes]
        BY <3>5, AreReadings
      <4>2. /\ x.generation = seen.generation /\ x.start = job.start
            /\ x.bytes = Segment(file.bytes, job.start, job.end)
        BY <3>1, <4>1
      <4>3. ReadSound(x)
        BY <3>3, <4>2, NewReading DEF ReadInv
      <4> QED
        BY <3>5, <4>1, <4>3, AreReadings
    <3>7. Keeps
      BY <2>2, LookKeeps DEF ReadInv, ServerTyped, Keeps
    <3>8. ReadSound(r)' /\ requests' \in Seq(Requests)
      BY <1>2, <2>1, <3>2, <3>5, <3>6, <3>7, KeepsAll, AnswerIs
    <3>9. RepliesSound'
      BY <2>1, <3>2, <3>5, <3>7, <3>8, AnswerSound
    <3>10. job' \in Jobs /\ job'.kind = "none" /\ JobSound'
      BY <2>1, JobFree
    <3> QED
      BY <1>1, <2>2, <3>8, <3>9, <3>10, HttpSound
  <2>4. CASE Outcome # "ok"
    <3>1. Answer(Failure(Outcome)) /\ Outcome \in Codes
      BY <1>4, <1>7, <2>4 DEF ContentRead, Outcome
    <3>2. job' \in Jobs /\ job'.kind = "none"
      BY <1>3, <2>1
    <3>3. PICK code \in Codes : code = Outcome
      BY <3>1
    <3>4. PICK f : f = Failure(code) /\ Answer(f)
      BY <3>1, <3>3
    <3> QED
      BY <1>1, <2>1, <2>2, <3>2, <3>4, FailsSound
  <2> QED
    BY <2>3, <2>4
<1>8. CASE ContentOpen
  <2>1. /\ Pending /\ requests # <<>> /\ job = NoJob /\ UNCHANGED rootVars
        /\ \/ Answer(Failure("NOT_FOUND")) /\ UNCHANGED job
           \/ file.at = node /\ Open("content", 0, FALSE) /\ UNCHANGED requests
    BY <1>8 DEF ContentOpen, Pending
  <2>2. Looks /\ seen' = seen
    BY <1>1, <1>2, <2>1 DEF Looks, rootVars
  <2>3. CASE Answer(Failure("NOT_FOUND")) /\ UNCHANGED job
    <3>1. job' \in Jobs /\ job'.kind = "none" /\ job' = NoJob /\ "NOT_FOUND" \in Codes
      BY <1>3, <1>4, <2>1, <2>3
    <3>2. PICK f : f = Failure("NOT_FOUND") /\ Answer(f)
      BY <2>3
    <3> QED
      BY <1>1, <2>1, <2>2, <3>1, <3>2, FailsSound
  <2>4. CASE file.at = node /\ Open("content", 0, FALSE) /\ UNCHANGED requests
    <3>1. file.at # "gone" /\ 0 \in 0..Connections
      BY <1>2, <2>4
    <3>2. job' \in Jobs /\ JobSound'
      BY <1>1, <2>2, <2>4, <3>1, OpenIs
    <3> QED
      BY <1>1, <2>1, <2>2, <2>4, <3>2, GoesOn
  <2> QED
    BY <2>1, <2>3, <2>4
<1>9. CASE ContentCompare
  <2>1. Compare("content") /\ UNCHANGED <<rootVars, requests>> /\ job.kind = "content"
    BY <1>9 DEF ContentCompare, Compare
  <2>2. Looks /\ seen' = seen
    BY <1>1, <1>2, <2>1 DEF Looks, rootVars
  <2>3. job' \in Jobs /\ JobSound'
    BY <1>1, <2>1, <2>2, CompareIs
  <2> QED
    BY <1>1, <1>2, <2>1, <2>2, <2>3, GoesOn
<1>10. CASE ContentRecord
  <2>1. PICK request, end :
           /\ request = Head(requests)
           /\ end = IF request.kind = "older" THEN request.before ELSE job.size
           /\ \/ /\ job' = NoJob
                 /\ Answer(Failure("GENERATION_CHANGED")) \/ Answer(Failure("CURSOR_INVALID"))
              \/ end <= job.size /\ Lock(Minus(end, Snapshot), end) /\ UNCHANGED requests
    BY <1>10 DEF ContentRecord
  <2>2. /\ job.kind = "content" /\ job.step = "compared" /\ seen' = Recorded /\ node' = node
        /\ requests # <<>> /\ Pending
    BY <1>2, <1>10 DEF ContentRecord
  <2>3. Looks
    BY <1>1, <1>2, <2>2 DEF Looks
  <2>4. CASE /\ job' = NoJob
             /\ Answer(Failure("GENERATION_CHANGED")) \/ Answer(Failure("CURSOR_INVALID"))
    <3>1. job' \in Jobs /\ job'.kind = "none"
      BY <1>3, <2>4
    <3>2. PICK code \in Codes : Answer(Failure(code))
      <4>1. "GENERATION_CHANGED" \in Codes /\ "CURSOR_INVALID" \in Codes
        BY <1>4
      <4> QED
        BY <2>4, <4>1
    <3>3. PICK f : f = Failure(code) /\ Answer(f)
      BY <3>2
    <3> QED
      BY <1>1, <2>2, <2>3, <2>4, <3>1, <3>3, FailsSound
  <2>5. CASE end <= job.size /\ Lock(Minus(end, Snapshot), end) /\ UNCHANGED requests
    <3>1. request \in Requests /\ job.size \in Lengths /\ Snapshot \in Nat
      BY <1>2, <2>1, <2>2, TailIs DEF Jobs, JobFields
    <3>2. end \in Lengths
      BY <2>1, <3>1 DEF Requests
    <3>3. PICK start : start = Minus(end, Snapshot)
      OBVIOUS
    <3>4. start \in Lengths /\ start <= end
      <4>1. end \in Nat /\ end <= MaxLen /\ MaxLen \in Nat
        BY <3>2
      <4> QED
        BY <3>1, <3>3, <4>1 DEF Minus
    <3>5. Lock(start, end)
      BY <2>5, <3>3
    <3>6. job' \in Jobs /\ JobSound'
      BY <1>1, <2>2, <2>5, <3>2, <3>4, <3>5, LockIs
    <3> QED
      BY <1>1, <2>2, <2>3, <2>5, <3>6, GoesOn
  <2> QED
    BY <2>1, <2>4, <2>5
<1> QED
  BY <1>6, <1>7, <1>8, <1>9, <1>10 DEF HttpStep
-----------------------------------------------------------------------------
(* Steps of the store *)

\* What a file holds, byte by byte.
LEMMA HoldsIs ==
  ASSUME NEW bytes \in Bytes, NEW x, x.start \in Nat, x.bytes \in Bytes
  PROVE  Holds(bytes, x) <=>
            /\ x.start + Len(x.bytes) <= Len(bytes)
            /\ \A n \in 1..Len(x.bytes) : x.bytes[n] = bytes[x.start + n]
<1>1. /\ Len(bytes) \in Nat /\ Len(x.bytes) \in Nat /\ End(x) = x.start + Len(x.bytes)
      /\ End(x) \in Nat /\ End(x) - x.start = Len(x.bytes)
  BY SMTT(30) DEF Bytes, End
<1>2. ASSUME End(x) <= Len(bytes)
      PROVE  /\ Segment(bytes, x.start, End(x)) \in Bytes
             /\ Len(Segment(bytes, x.start, End(x))) = Len(x.bytes)
             /\ \A n \in 1..Len(x.bytes) : Segment(bytes, x.start, End(x))[n] = bytes[x.start + n]
  <2>1. PICK start, end : start = x.start /\ end = End(x)
    OBVIOUS
  <2>2. end \in 0..Len(bytes) /\ start \in 0..end /\ end - start = Len(x.bytes)
    BY <1>1, <1>2, <2>1
  <2>3. Segment(bytes, start, end) \in Bytes /\ Len(Segment(bytes, start, end)) = end - start
    BY <2>2, SegmentIs
  <2>4. \A n \in 1..end - start : Segment(bytes, start, end)[n] = bytes[start + n]
    BY <2>2, SegmentIs
  <2> QED
    BY <2>1, <2>2, <2>3, <2>4
<1>3. ASSUME Holds(bytes, x), NEW n \in 1..Len(x.bytes) PROVE x.bytes[n] = bytes[x.start + n]
  BY <1>2, <1>3 DEF Holds
<1>4. ASSUME End(x) <= Len(bytes), \A n \in 1..Len(x.bytes) : x.bytes[n] = bytes[x.start + n]
      PROVE  Holds(bytes, x)
  <2>1. \A n \in 1..Len(x.bytes) : x.bytes[n] = Segment(bytes, x.start, End(x))[n]
    BY <1>2, <1>4
  <2>2. x.bytes = Segment(bytes, x.start, End(x))
    BY <1>2, <1>4, <2>1, SameSequence DEF Bytes
  <2> QED
    BY <1>4, <2>2 DEF Holds
<1> QED
  BY <1>1, <1>3, <1>4 DEF Holds

\* The fields of a reading.
LEMMA ReadingIs ==
  ASSUME NEW x \in Readings
  PROVE  /\ x.generation \in Nat /\ x.start \in Lengths /\ x.start \in Nat /\ x.bytes \in Bytes
         /\ Len(x.bytes) \in Nat /\ End(x) = x.start + Len(x.bytes) /\ End(x) <= MaxLen
<1>1. x.generation \in Nat /\ x.start \in Lengths /\ x.bytes \in Bytes /\ End(x) <= MaxLen
  BY DEF Readings
<1>2. x.start \in Nat
  BY <1>1
<1>3. Len(x.bytes) \in Nat
  BY <1>1 DEF Bytes
<1> QED
  BY <1>1, <1>2, <1>3 DEF End

\* Part of what has been read has been read.
LEMMA PartSound ==
  ASSUME DiskTyped, NEW x \in Readings, ReadSound(x), NEW y \in Readings,
         y.generation = x.generation, NEW from \in Nat, y.start = x.start + from,
         NEW to \in Nat, from <= to, to <= Len(x.bytes), y.bytes = Segment(x.bytes, from, to)
  PROVE  ReadSound(y)
<1>1. /\ file.bytes \in Bytes /\ Len(file.bytes) \in Nat /\ seen.size \in Nat
  BY DiskNumbers
<1>2. x.bytes \in Bytes /\ x.start \in Nat /\ y.bytes \in Bytes /\ y.start \in Nat
  BY ReadingIs
<1>3. PICK length \in Nat, start \in Nat : length = Len(x.bytes) /\ start = x.start
  BY ReadingIs
<1>4. Len(y.bytes) = to - from /\ \A n \in 1..to - from : y.bytes[n] = x.bytes[from + n]
  <2>1. to \in 0..length /\ from \in 0..to
    BY <1>3
  <2>2. PICK b \in Bytes : b = x.bytes
    BY <1>2
  <2>3. Len(Segment(b, from, to)) = to - from
    BY <1>3, <2>1, <2>2, SegmentIs
  <2>4. \A n \in 1..to - from : Segment(b, from, to)[n] = b[from + n]
    BY <1>3, <2>1, <2>2, SegmentIs
  <2> QED
    BY <2>2, <2>3, <2>4
<1>5. End(y) = start + to /\ End(x) = start + length
  <2>1. End(y) = y.start + Len(y.bytes) /\ End(x) = x.start + Len(x.bytes)
    BY ReadingIs
  <2>2. start + from + (to - from) = start + to
    OBVIOUS
  <2> QED
    BY <1>3, <1>4, <2>1, <2>2
<1>6. ASSUME x.generation = seen.generation, ~Doubt
      PROVE  End(y) <= seen.size /\ Holds(file.bytes, y)
  <2>1. start + length <= seen.size /\ Holds(file.bytes, x)
    BY <1>5, <1>6 DEF ReadSound
  <2>2. /\ start + length <= Len(file.bytes)
        /\ \A n \in 1..length : x.bytes[n] = file.bytes[start + n]
    BY <1>1, <1>2, <1>3, <2>1, HoldsIs
  <2>3. ASSUME NEW n \in 1..to - from PROVE y.bytes[n] = file.bytes[y.start + n]
    <3>1. from + n \in 1..length
      <4>1. n \in Int /\ n >= 1 /\ n <= to - from /\ to <= length
        BY <1>3
      <4> QED
        BY <4>1
    <3>2. start + (from + n) = start + from + n
      OBVIOUS
    <3>3. x.bytes[from + n] = file.bytes[start + (from + n)]
      BY <2>2, <3>1
    <3>4. y.bytes[n] = x.bytes[from + n]
      BY <1>4
    <3> QED
      BY <1>3, <3>2, <3>3, <3>4
  <2>4. start + to <= Len(file.bytes) /\ start + to <= seen.size
    <3>1. start + to <= start + length
      BY SMTT(30), <1>3
    <3> QED
      BY SMTT(30), <1>1, <2>1, <2>2, <3>1
  <2>5. y.start + Len(y.bytes) <= Len(file.bytes)
    BY <1>3, <1>4, <2>4
  <2>6. \A n \in 1..Len(y.bytes) : y.bytes[n] = file.bytes[y.start + n]
    BY <1>4, <2>3
  <2> QED
    BY <1>1, <1>2, <1>5, <2>4, <2>5, <2>6, HoldsIs
<1> QED
  BY <1>5, <1>6 DEF ReadSound

\* Two readings of one generation that meet are one reading.
LEMMA MeetSound ==
  ASSUME DiskTyped, NEW x \in Readings, ReadSound(x), NEW y \in Readings, ReadSound(y),
         y.generation = x.generation, y.start = End(x), NEW z \in Readings,
         z.generation = x.generation, z.start = x.start, z.bytes = x.bytes \o y.bytes
  PROVE  ReadSound(z) /\ End(z) = End(y)
<1>1. /\ file.bytes \in Bytes /\ Len(file.bytes) \in Nat /\ seen.size \in Nat
  BY DiskNumbers
<1>2. /\ x.bytes \in Bytes /\ x.start \in Nat /\ y.bytes \in Bytes /\ y.start \in Nat
      /\ z.bytes \in Bytes /\ z.start \in Nat
  BY ReadingIs
<1>3. PICK a \in Nat, b \in Nat, start \in Nat :
         a = Len(x.bytes) /\ b = Len(y.bytes) /\ start = x.start
  BY ReadingIs
<1>4. /\ Len(z.bytes) = a + b
      /\ \A n \in 1..a + b : z.bytes[n] = IF n <= a THEN x.bytes[n] ELSE y.bytes[n - a]
  <2>1. PICK s \in Bytes, t \in Bytes : s = x.bytes /\ t = y.bytes
    BY <1>2
  <2>2. Len(s \o t) = Len(s) + Len(t)
    BY DEF Bytes
  <2>3. \A n \in 1..Len(s) + Len(t) : (s \o t)[n] = IF n <= Len(s) THEN s[n] ELSE t[n - Len(s)]
    BY DEF Bytes
  <2> QED
    BY <1>3, <2>1, <2>2, <2>3
<1>5. End(x) = start + a /\ y.start = start + a /\ End(y) = start + a + b /\ End(z) = start + (a + b)
  <2>1. End(x) = x.start + Len(x.bytes) /\ End(y) = y.start + Len(y.bytes)
        /\ End(z) = z.start + Len(z.bytes)
    BY ReadingIs
  <2> QED
    BY <1>3, <1>4, <2>1
<1>6. ASSUME x.generation = seen.generation, ~Doubt
      PROVE  End(y) <= seen.size /\ Holds(file.bytes, z)
  <2>1. /\ End(y) <= seen.size /\ Holds(file.bytes, y) /\ Holds(file.bytes, x)
    BY <1>6 DEF ReadSound
  <2>2. \A n \in 1..a : x.bytes[n] = file.bytes[start + n]
    BY <1>1, <1>2, <1>3, <2>1, HoldsIs
  <2>3. start + a + b <= Len(file.bytes) /\ \A n \in 1..b : y.bytes[n] = file.bytes[start + a + n]
    <3>1. y.start + Len(y.bytes) <= Len(file.bytes)
      BY <1>1, <1>2, <2>1, HoldsIs
    <3>2. \A n \in 1..Len(y.bytes) : y.bytes[n] = file.bytes[y.start + n]
      BY <1>1, <1>2, <2>1, HoldsIs
    <3> QED
      BY <1>3, <1>5, <3>1, <3>2
  <2>4. ASSUME NEW n \in 1..a + b PROVE z.bytes[n] = file.bytes[start + n]
    <3>1. CASE n <= a
      <4>1. n \in 1..a
        BY <3>1
      <4>2. z.bytes[n] = x.bytes[n]
        BY <1>4, <3>1
      <4> QED
        BY <2>2, <4>1, <4>2
    <3>2. CASE ~(n <= a)
      <4>1. n - a \in 1..b /\ start + a + (n - a) = start + n
        BY <3>2
      <4>2. z.bytes[n] = y.bytes[n - a]
        BY <1>4, <3>2
      <4>3. y.bytes[n - a] = file.bytes[start + a + (n - a)]
        BY <2>3, <4>1
      <4> QED
        BY <4>1, <4>2, <4>3
    <3> QED
      BY <3>1, <3>2
  <2>5. z.start + Len(z.bytes) <= Len(file.bytes)
    <3>1. start + (a + b) = start + a + b
      OBVIOUS
    <3> QED
      BY <1>3, <1>4, <2>3, <3>1
  <2>6. \A n \in 1..Len(z.bytes) : z.bytes[n] = file.bytes[z.start + n]
    BY <1>3, <1>4, <2>4
  <2> QED
    BY <1>1, <1>2, <2>1, <2>5, <2>6, HoldsIs
<1>7. End(z) = End(y)
  BY <1>5
<1> QED
  BY <1>6, <1>7 DEF ReadSound

\* A window that is cut to its maximum keeps its end, or its start.
LEMMA KeepIs ==
  ASSUME ReadInv, NEW x \in Readings, ReadSound(x)
  PROVE  /\ KeepLast(x) \in Windows /\ ReadSound(KeepLast(x)) /\ End(KeepLast(x)) = End(x)
         /\ KeepLast(x).generation = x.generation
         /\ KeepFirst(x) \in Windows /\ ReadSound(KeepFirst(x)) /\ End(KeepFirst(x)) <= End(x)
         /\ KeepFirst(x).generation = x.generation
<1>1. /\ x.generation \in Nat /\ x.start \in Lengths /\ x.start \in Nat /\ x.bytes \in Bytes
      /\ End(x) <= MaxLen /\ End(x) = x.start + Len(x.bytes) /\ Len(x.bytes) \in Nat
      /\ MaxBytes \in Nat /\ MaxLen \in Nat
      /\ x = [generation |-> x.generation, start |-> x.start, bytes |-> x.bytes]
  BY DEF Readings, End, Bytes
<1>2. PICK excess : excess = Minus(Len(x.bytes), MaxBytes)
  OBVIOUS
<1>3. excess \in 0..Len(x.bytes) /\ excess \in Nat /\ Len(x.bytes) - excess <= MaxBytes
  BY SMTT(30), <1>1, <1>2 DEF Minus
<1>4. PICK kept : kept = Smaller(MaxBytes, Len(x.bytes))
  OBVIOUS
<1>5. kept \in 0..Len(x.bytes) /\ kept <= MaxBytes /\ kept \in Nat
  BY <1>1, <1>4 DEF Smaller
<1>6. /\ Segment(x.bytes, excess, Len(x.bytes)) \in Bytes
      /\ Len(Segment(x.bytes, excess, Len(x.bytes))) = Len(x.bytes) - excess
  <2>1. excess \in 0..Len(x.bytes) /\ Len(x.bytes) \in 0..Len(x.bytes)
    BY <1>1, <1>3
  <2> QED
    BY <1>1, <2>1, SegmentIs
<1>7. Segment(x.bytes, 0, kept) \in Bytes /\ Len(Segment(x.bytes, 0, kept)) = kept
  <2>1. kept \in 0..Len(x.bytes) /\ 0 \in 0..kept /\ kept - 0 = kept
    BY <1>5
  <2>2. Segment(x.bytes, 0, kept) \in Bytes /\ Len(Segment(x.bytes, 0, kept)) = kept - 0
    BY <1>1, <2>1, SegmentIs
  <2> QED
    BY <2>1, <2>2
<1>8. PICK l : l = KeepLast(x)
  OBVIOUS
<1>9. PICK f : f = KeepFirst(x)
  OBVIOUS
<1>10. l = [generation |-> x.generation, start |-> x.start + excess,
            bytes |-> Segment(x.bytes, excess, Len(x.bytes))]
  BY <1>1, <1>2, <1>8, Zenon DEF KeepLast
<1>11. f = [generation |-> x.generation, start |-> x.start, bytes |-> Segment(x.bytes, 0, kept)]
  BY <1>1, <1>4, <1>9, Zenon DEF KeepFirst
<1>12. l \in Readings /\ l \in Windows /\ End(l) = End(x)
  <2>1. /\ l.generation \in Nat /\ l.start = x.start + excess /\ Len(l.bytes) = Len(x.bytes) - excess
        /\ l.bytes \in Bytes
    BY <1>1, <1>6, <1>10
  <2>2. x.start + excess \in Lengths /\ End(l) = End(x) /\ Len(l.bytes) <= MaxBytes
    BY SMTT(30), <1>1, <1>3, <2>1 DEF End
  <2>3. l \in [generation : Nat, start : Lengths, bytes : Bytes]
    BY <1>1, <1>6, <1>10, <2>2
  <2> QED
    BY <1>1, <2>2, <2>3 DEF Readings, Windows
<1>13. f \in Readings /\ f \in Windows /\ End(f) <= End(x)
  <2>1. f.start = x.start /\ Len(f.bytes) = kept
    BY <1>7, <1>11
  <2>2. End(f) <= End(x) /\ End(f) <= MaxLen /\ Len(f.bytes) <= MaxBytes
    BY <1>1, <1>5, <2>1 DEF End
  <2>3. f \in [generation : Nat, start : Lengths, bytes : Bytes]
    BY <1>1, <1>7, <1>11
  <2> QED
    BY <2>2, <2>3 DEF Readings, Windows
<1>14. ReadSound(l)
  <2>1. PICK to \in Nat : to = Len(x.bytes)
    BY <1>1
  <2>2. excess <= to /\ to <= Len(x.bytes)
    BY <1>1, <1>3, <2>1
  <2>3. /\ l.generation = x.generation /\ l.start = x.start + excess
        /\ l.bytes = Segment(x.bytes, excess, to)
    BY <1>10, <2>1
  <2> QED
    BY <1>3, <1>12, <2>2, <2>3, PartSound DEF ReadInv
<1>15. ReadSound(f)
  <2>1. 0 \in Nat /\ 0 <= kept /\ kept <= Len(x.bytes)
    BY <1>1, <1>5
  <2>2. /\ f.generation = x.generation /\ f.start = x.start + 0
        /\ f.bytes = Segment(x.bytes, 0, kept)
    BY <1>1, <1>11
  <2> QED
    BY <1>5, <1>13, <2>1, <2>2, PartSound DEF ReadInv
<1> QED
  BY <1>8, <1>9, <1>10, <1>11, <1>12, <1>13, <1>14, <1>15

\* What the store holds is sound.
StoreSound == StoreTyped /\ ReadSound(window) /\ RepliesSound /\ NewerSound

\* A step of the store sends what it reads to nobody: it takes messages only.
LEMMA StoreIs ==
  ASSUME ReadInv, UNCHANGED <<diskVars, rootVars, dataVars, cancel, flow, job>>,
         toServer' \in [Flows -> Seq(ServerMessage)], toClient' \in [Flows -> Seq(ClientMessage)],
         link' \in [Flows -> {"none", "open", "cut"}], StoreSound',
         \A d \in Flows : \A n \in DOMAIN toClient'[d] :
            \E k \in DOMAIN toClient[d] : toClient'[d][n] = toClient[d][k]
  PROVE  ReadInv'
<1>1. Looks
  BY DEF Looks, diskVars, rootVars, ReadInv, DiskTyped
<1>2. DiskTyped' /\ SeenSound' /\ JobSound' /\ Keeps
  BY <1>1, LookTyped, LookKeeps, JobRests DEF ReadInv, ServerTyped, Keeps, diskVars, rootVars
<1>3. ServerTyped'
  BY DEF ReadInv, ServerTyped, dataVars, rootVars
<1>4. BlocksSound'
  <2> SUFFICES ASSUME NEW d \in Flows, NEW n \in DOMAIN toClient'[d], toClient'[d][n].type = "chunk"
               PROVE  ReadSound(toClient[d][n])'
    BY DEF BlocksSound
  <2>1. PICK k \in DOMAIN toClient[d] : toClient'[d][n] = toClient[d][k]
    OBVIOUS
  <2>2. PICK m : m = toClient[d][k]
    OBVIOUS
  <2>3. m \in ChunkMessage /\ ReadSound(m)
    <3>1. toClient[d][k].type = "chunk" /\ m.type = "chunk"
      BY <2>1, <2>2
    <3>2. toClient[d] \in Seq(ClientMessage) /\ m \in ClientMessage
      BY <2>2 DEF ReadInv, ServerTyped
    <3>3. ReadSound(m)
      BY <2>2, <3>1 DEF ReadInv, BlocksSound
    <3> QED
      BY <3>1, <3>2, <3>3, ChunksAre
  <2>4. ReadSound(m)' /\ toClient'[d][n] = m
    BY <1>2, <2>1, <2>2, <2>3, KeepsAll
  <2> QED
    BY <2>4
<1> QED
  BY <1>2, <1>3, <1>4 DEF ReadInv, StoreSound

\* A message of the store to the server.
LEMMA SendIs ==
  ASSUME ServerTyped, StoreTyped, NEW message \in ServerMessage, Send(message)
  PROVE  toServer' \in [Flows -> Seq(ServerMessage)]
<1>1. toServer \in [Flows -> Seq(ServerMessage)] /\ socket \in 0..Connections
  BY DEF ServerTyped, StoreTyped
<1>2. CASE socket # 0 /\ link[socket] = "open"
  <2>1. socket \in Flows
    BY <1>1, <1>2 DEF Flows
  <2>2. toServer' = [toServer EXCEPT ![socket] = Append(toServer[socket], message)]
    BY <1>2, Zenon DEF Send
  <2>3. Append(toServer[socket], message) \in Seq(ServerMessage)
    BY <1>1, <2>1
  <2> QED
    BY <1>1, <2>1, <2>2, <2>3
<1>3. CASE ~(socket # 0 /\ link[socket] = "open")
  BY <1>1, <1>3 DEF Send
<1> QED
  BY <1>2, <1>3

\* A queue that gets one more request.
LEMMA QueueIs ==
  ASSUME NEW queue \in Seq(Requests), NEW q \in Requests
  PROVE  /\ Append(queue, q) \in Seq(Requests) /\ Append(queue, q) # <<>>
         /\ queue # <<>> => Head(Append(queue, q)) = Head(queue)
         /\ \A n \in DOMAIN Append(queue, q) :
               Append(queue, q)[n] = q \/ \E k \in DOMAIN queue : Append(queue, q)[n] = queue[k]
<1>1. /\ Append(queue, q) \in Seq(Requests) /\ Append(queue, q) # <<>>
      /\ queue # <<>> => Head(Append(queue, q)) = Head(queue)
  OBVIOUS
<1>2. /\ Len(queue) \in Nat /\ DOMAIN queue = 1..Len(queue)
      /\ DOMAIN Append(queue, q) = 1..Len(queue) + 1
      /\ \A n \in 1..Len(queue) + 1 :
            Append(queue, q)[n] = IF n <= Len(queue) THEN queue[n] ELSE q
  OBVIOUS
<1>3. \A n \in 1..Len(queue) + 1 : n <= Len(queue) => n \in DOMAIN queue
  BY <1>2
<1> QED
  BY <1>1, <1>2, <1>3

\* Nothing is read yet in an empty window and a new request.
LEMMA EmptySound ==
  ASSUME ReadInv
  PROVE  /\ EmptyWindow \in Windows /\ ReadSound(EmptyWindow)
         /\ NoReply \in Replies /\ ReadSound(NoReply)
<1>1. PICK x : x = [generation |-> 0, start |-> 0, bytes |-> <<>>]
  OBVIOUS
<1>2. <<>> \in Bytes /\ 0 \in Lengths /\ 0 <= MaxLen /\ 0 <= MaxBytes
  BY DEF Bytes
<1>3. x \in Readings /\ x \in Windows
  BY <1>1, <1>2 DEF Readings, Windows, End
<1>4. ReadSound(x)
  BY <1>1, <1>3, EmptyReading DEF ReadInv
<1>5. EmptyWindow = x
  BY <1>1 DEF EmptyWindow
<1>6. "none" \in Codes
  BY DEF Codes
<1>7. Failure("none") = NoReply
  BY DEF Failure, NoReply
<1> QED
  BY <1>3, <1>4, <1>5, <1>6, <1>7, FailureIs

\* A queue of sound replies gets a new request.
LEMMA RequestSound ==
  ASSUME ReadInv, Keeps, NEW queue \in Seq(Requests),
         \A n \in DOMAIN queue : ReadSound(queue[n].reply),
         NEW q \in Requests, q.reply = NoReply, requests' = Append(queue, q)
  PROVE  RepliesSound'
<1> SUFFICES ASSUME NEW n \in DOMAIN requests' PROVE ReadSound(requests[n].reply)'
  BY DEF RepliesSound
<1>1. CASE requests'[n] = q
  <2>1. PICK r : r = NoReply
    OBVIOUS
  <2>2. ReadSound(r)'
    BY <2>1, EmptySound, KeepsAll
  <2>3. requests'[n].reply = r
    BY <1>1, <2>1
  <2> QED
    BY <2>2, <2>3
<1>2. ASSUME NEW k \in DOMAIN queue, requests'[n] = queue[k] PROVE ReadSound(requests[n].reply)'
  <2>1. PICK r : r = queue[k].reply
    OBVIOUS
  <2>2. r \in Replies /\ ReadSound(r)
    BY <2>1, AreReadings
  <2>3. ReadSound(r)' /\ requests'[n].reply = r
    BY <1>2, <2>1, <2>2, KeepsAll
  <2> QED
    BY <2>3
<1> QED
  BY <1>1, <1>2, QueueIs

\* Reading again forgets the window.
LEMMA SelectSound ==
  ASSUME ReadInv, UNCHANGED <<diskVars, rootVars, job, socket>>, NEW queue \in Seq(Requests),
         \A n \in DOMAIN queue : ReadSound(queue[n].reply),
         job.kind = "content" => queue # <<>> /\ Head(queue).reply = NoReply,
         Select(queue)
  PROVE  StoreSound' /\ toServer' \in [Flows -> Seq(ServerMessage)]
<1>1. Looks
  BY DEF Looks, diskVars, rootVars, ReadInv, DiskTyped
<1>2. Keeps
  BY <1>1, LookKeeps DEF ReadInv, ServerTyped, Keeps
<1>3. /\ revision' = revision + 1 /\ Send([type |-> "unsubscribe"]) /\ window' = EmptyWindow
      /\ following' = TRUE /\ newer' = FALSE /\ status' = "loading" /\ cursor' = cursor
      /\ requests' = Append(queue, Request("snapshot", revision', EmptyWindow))
  BY DEF Select
<1>4. revision \in Nat /\ socket \in 0..Connections /\ cursor \in Lengths /\ revision' \in Nat
  BY <1>3 DEF ReadInv, StoreTyped
<1>5. PICK q : q = Request("snapshot", revision', EmptyWindow)
  OBVIOUS
<1>6. q \in Requests /\ q.reply = NoReply
  <2>1. q = [kind |-> "snapshot", rev |-> revision', before |-> 0, generation |-> 0, reply |-> NoReply]
    BY <1>5 DEF Request, EmptyWindow
  <2>2. NoReply \in Replies /\ 0 \in Lengths
    BY EmptySound
  <2> QED
    BY <1>4, <2>1, <2>2 DEF Requests
<1>7. requests' = Append(queue, q)
  BY <1>3, <1>5
<1>8. requests' \in Seq(Requests) /\ (job'.kind = "content" => Pending')
  BY <1>6, <1>7, QueueIs DEF Pending
<1>9. StoreTyped'
  BY <1>3, <1>4, <1>8, EmptySound DEF StoreTyped
<1>10. ReadSound(window)'
  <2>1. PICK w : w = EmptyWindow
    OBVIOUS
  <2>2. ReadSound(w)'
    BY <1>2, <2>1, EmptySound, KeepsAll
  <2> QED
    BY <1>3, <2>1, <2>2
<1>11. RepliesSound'
  BY <1>2, <1>6, <1>7, RequestSound
<1>12. NewerSound'
  BY <1>3 DEF NewerSound, EmptyWindow
<1>13. [type |-> "unsubscribe"] \in ServerMessage
  BY DEF ServerMessage
<1> QED
  BY <1>3, <1>9, <1>10, <1>11, <1>12, <1>13, SendIs DEF ReadInv, StoreSound

\* The readings that meet, as a record.
LEMMA JoinIs ==
  ASSUME NEW x \in Readings, NEW y \in Readings, y.start = End(x), NEW z,
         z = [generation |-> x.generation, start |-> x.start, bytes |-> x.bytes \o y.bytes]
  PROVE  z \in Readings /\ End(z) = End(y)
<1>1. PICK a \in Bytes, b \in Bytes : a = x.bytes /\ b = y.bytes
  BY ReadingIs
<1>2. a \o b \in Bytes /\ Len(a \o b) = Len(a) + Len(b) /\ Len(a) \in Nat /\ Len(b) \in Nat
  BY DEF Bytes
<1>3. /\ x.generation \in Nat /\ x.start \in Lengths /\ x.start \in Nat
      /\ End(x) = x.start + Len(a) /\ End(y) = y.start + Len(b) /\ End(y) <= MaxLen
  BY <1>1, ReadingIs
<1>4. z.start = x.start /\ z.bytes = a \o b
  BY <1>1
<1>5. End(z) = End(y)
  <2>1. End(z) = x.start + (Len(a) + Len(b))
    BY <1>2, <1>4 DEF End
  <2>2. End(y) = x.start + Len(a) + Len(b)
    BY <1>3
  <2> QED
    BY <1>2, <1>3, <2>1, <2>2
<1>6. z \in [generation : Nat, start : Lengths, bytes : Bytes]
  BY <1>1, <1>2, <1>3
<1> QED
  BY <1>3, <1>5, <1>6 DEF Readings

\* A reply is taken from the queue, and used if it is of the current revision.
LEMMA RespondKeeps ==
  ASSUME ReadInv, Respond, UNCHANGED <<diskVars, rootVars, dataVars, cancel, flow, job>>
  PROVE  ReadInv'
<1>1. PICK request, reply, rest, block :
         /\ request = Head(requests) /\ reply = request.reply /\ rest = Tail(requests)
         /\ block = [generation |-> reply.generation, start |-> reply.start, bytes |-> reply.bytes]
         /\ \/ requests' = rest /\ UNCHANGED <<toServer, viewVars>>
            \/ /\ window' = KeepLast(block) /\ cursor' = End(block)
               /\ status' = IF socket # 0 THEN "live" ELSE "reconnecting"
               /\ Send(Subscription(block.generation, End(block)))
               /\ requests' = rest /\ UNCHANGED <<revision, following, newer>>
            \/ /\ status' = "failed" /\ requests' = rest
               /\ UNCHANGED <<toServer, revision, cursor, window, following, newer>>
            \/ /\ IF block.generation = window.generation /\ End(block) = window.start
                  THEN /\ window' = KeepFirst([block EXCEPT !.bytes = @ \o window.bytes])
                       /\ newer' = Behind(KeepFirst([block EXCEPT !.bytes = @ \o window.bytes]))
                  ELSE UNCHANGED <<window, newer>>
               /\ requests' = rest /\ UNCHANGED <<toServer, revision, cursor, following, status>>
            \/ Select(rest)
  BY DEF Respond
<1>2. /\ requests # <<>> /\ Head(requests).reply # NoReply /\ UNCHANGED <<socket, link, toClient>>
  BY DEF Respond
<1>3. /\ requests \in Seq(Requests) /\ socket \in 0..Connections /\ revision \in Nat
      /\ cursor \in Lengths /\ window \in Windows /\ following \in BOOLEAN /\ newer \in BOOLEAN
      /\ status \in {"choose", "loading", "live", "failed", "unavailable", "resync", "reconnecting"}
      /\ ReadSound(window) /\ (job.kind = "content" => Pending)
  BY DEF ReadInv, StoreTyped
<1>4. /\ toServer \in [Flows -> Seq(ServerMessage)] /\ toClient \in [Flows -> Seq(ClientMessage)]
      /\ link \in [Flows -> {"none", "open", "cut"}]
  BY DEF ReadInv, ServerTyped
<1>5. job.kind # "content" /\ job'.kind # "content"
  BY <1>2, <1>3 DEF Pending
<1>6. request \in Requests /\ rest \in Seq(Requests)
  BY <1>1, <1>2, <1>3, TailIs
<1>7. ASSUME NEW n \in DOMAIN rest PROVE ReadSound(rest[n].reply)
  <2>1. n + 1 \in DOMAIN requests /\ rest[n] = requests[n + 1]
    BY <1>1, <1>2, <1>3, TailIs
  <2> QED
    BY <2>1 DEF ReadInv, RepliesSound
<1>8. reply \in Replies /\ block \in Readings /\ ReadSound(block)
  <2>1. 1 \in DOMAIN requests /\ request = requests[1]
    BY <1>1, <1>2, <1>3
  <2>2. ReadSound(requests[1].reply)
    BY <2>1 DEF ReadInv, RepliesSound
  <2>3. reply \in Replies /\ ReadSound(reply)
    BY <1>1, <1>6, <2>1, <2>2, AreReadings
  <2> QED
    BY <1>1, <2>3, AreReadings
<1>9. Looks /\ Keeps
  <2>1. Looks
    BY DEF Looks, diskVars, rootVars, ReadInv, DiskTyped
  <2> QED
    BY <2>1, LookKeeps DEF ReadInv, ServerTyped, Keeps
<1>10. ASSUME requests' = rest PROVE RepliesSound'
  <2> SUFFICES ASSUME NEW n \in DOMAIN rest PROVE ReadSound(requests[n].reply)'
    BY <1>10 DEF RepliesSound
  <2>1. PICK r : r = rest[n].reply
    OBVIOUS
  <2>2. r \in Replies /\ ReadSound(r)
    BY <1>6, <1>7, <2>1, AreReadings
  <2>3. ReadSound(r)' /\ requests'[n].reply = r
    BY <1>9, <1>10, <2>1, <2>2, KeepsAll
  <2> QED
    BY <2>3
<1>11. ASSUME NEW w \in Windows, ReadSound(w), window' = w PROVE ReadSound(window)' /\ window' \in Windows
  <2>1. ReadSound(w)'
    BY <1>9, <1>11, KeepsAll
  <2> QED
    BY <1>11, <2>1
<1>12. window' = window => ReadSound(window)' /\ window' \in Windows
  <2>1. PICK w : w = window
    OBVIOUS
  <2> QED
    BY <1>3, <1>11, <2>1
<1>13. ASSUME StoreSound', toServer' \in [Flows -> Seq(ServerMessage)] PROVE ReadInv'
  <2>1. \A d \in Flows : \A n \in DOMAIN toClient'[d] :
           \E k \in DOMAIN toClient[d] : toClient'[d][n] = toClient[d][k]
    BY <1>2
  <2> QED
    BY <1>2, <1>4, <1>13, <2>1, StoreIs
<1>14. CASE requests' = rest /\ UNCHANGED <<toServer, viewVars>>
  <2>1. /\ revision' = revision /\ cursor' = cursor /\ window' = window /\ following' = following
        /\ newer' = newer /\ status' = status /\ toServer' = toServer /\ socket' = socket
    BY <1>2, <1>14 DEF viewVars
  <2>2. StoreTyped'
    BY <1>3, <1>5, <1>6, <1>14, <2>1 DEF StoreTyped
  <2>3. NewerSound'
    BY <2>1 DEF NewerSound, ReadInv
  <2> QED
    BY <1>4, <1>10, <1>12, <1>13, <1>14, <2>1, <2>2, <2>3 DEF StoreSound
<1>15. CASE /\ status' = "failed" /\ requests' = rest
            /\ UNCHANGED <<toServer, revision, cursor, window, following, newer>>
  <2>1. StoreTyped'
    BY <1>2, <1>3, <1>5, <1>6, <1>15 DEF StoreTyped
  <2>2. NewerSound'
    BY <1>15 DEF NewerSound, ReadInv
  <2> QED
    BY <1>4, <1>10, <1>12, <1>13, <1>15, <2>1, <2>2 DEF StoreSound
<1>16. CASE /\ window' = KeepLast(block) /\ cursor' = End(block)
            /\ status' = IF socket # 0 THEN "live" ELSE "reconnecting"
            /\ Send(Subscription(block.generation, End(block)))
            /\ requests' = rest /\ UNCHANGED <<revision, following, newer>>
  <2>1. PICK l : l = KeepLast(block)
    OBVIOUS
  <2>2. l \in Windows /\ ReadSound(l) /\ End(l) = End(block)
    BY <1>8, <2>1, KeepIs
  <2>3. End(block) \in Lengths /\ block.generation \in Nat
    BY <1>8, ReadingIs
  <2>4. window' = l
    BY <1>16, <2>1
  <2>5. StoreTyped'
    BY <1>2, <1>3, <1>5, <1>6, <1>16, <2>2, <2>3, <2>4 DEF StoreTyped
  <2>6. NewerSound'
    BY <1>16, <2>2, <2>3, <2>4 DEF NewerSound
  <2>7. toServer' \in [Flows -> Seq(ServerMessage)]
    <3>1. PICK message : message = Subscription(block.generation, End(block))
      OBVIOUS
    <3>2. message \in ServerMessage
      BY <1>3, <2>3, <3>1 DEF Subscription, ServerMessage, SubscribeMessage
    <3>3. Send(message)
      BY <1>16, <3>1
    <3> QED
      BY <3>2, <3>3, SendIs DEF ReadInv
  <2> QED
    BY <1>10, <1>11, <1>13, <1>16, <2>2, <2>4, <2>5, <2>6, <2>7 DEF StoreSound
<1>17. CASE /\ IF block.generation = window.generation /\ End(block) = window.start
               THEN /\ window' = KeepFirst([block EXCEPT !.bytes = @ \o window.bytes])
                    /\ newer' = Behind(KeepFirst([block EXCEPT !.bytes = @ \o window.bytes]))
               ELSE UNCHANGED <<window, newer>>
            /\ requests' = rest /\ UNCHANGED <<toServer, revision, cursor, following, status>>
  <2>1. CASE ~(block.generation = window.generation /\ End(block) = window.start)
    <3>1. window' = window /\ newer' = newer
      BY <1>17, <2>1
    <3>2. StoreTyped'
      BY <1>2, <1>3, <1>5, <1>6, <1>17, <3>1 DEF StoreTyped
    <3>3. NewerSound'
      BY <1>17, <3>1 DEF NewerSound, ReadInv
    <3> QED
      BY <1>4, <1>10, <1>12, <1>13, <1>17, <3>1, <3>2, <3>3 DEF StoreSound
  <2>2. CASE block.generation = window.generation /\ End(block) = window.start
    <3>1. PICK w : w = window
      OBVIOUS
    <3>2. PICK z : z = [generation |-> block.generation, start |-> block.start,
                        bytes |-> block.bytes \o w.bytes]
      OBVIOUS
    <3>3. z = [block EXCEPT !.bytes = @ \o window.bytes]
      <4>1. block = [generation |-> block.generation, start |-> block.start, bytes |-> block.bytes]
        BY <1>1
      <4>2. [block EXCEPT !.bytes = @ \o window.bytes]
               = [block EXCEPT !.bytes = block.bytes \o w.bytes]
        BY <3>1, Zenon
      <4>3. PICK v : v = block.bytes \o w.bytes
        OBVIOUS
      <4>4. [block EXCEPT !.bytes = v]
               = [generation |-> block.generation, start |-> block.start, bytes |-> v]
        BY <4>1
      <4> QED
        BY <3>2, <4>2, <4>3, <4>4, Zenon
    <3>4. w \in Readings /\ ReadSound(w) /\ w.start = End(block) /\ w.generation = block.generation
      BY <1>3, <2>2, <3>1, AreReadings
    <3>5. z \in Readings /\ End(z) = End(w)
      <4>1. block \in Readings /\ w \in Readings /\ w.start = End(block)
        BY <1>8, <3>4
      <4> QED
        BY <3>2, <4>1, JoinIs, Zenon
    <3>6. ReadSound(z)
      <4>1. z.generation = block.generation /\ z.start = block.start
            /\ z.bytes = block.bytes \o w.bytes
        BY <3>2
      <4> QED
        BY <1>8, <3>4, <3>5, <4>1, MeetSound DEF ReadInv
    <3>7. PICK f : f = KeepFirst(z)
      OBVIOUS
    <3>8. f \in Windows /\ ReadSound(f) /\ End(f) <= End(z) /\ f.generation = z.generation
      BY <3>5, <3>6, <3>7, KeepIs
    <3>9. window' = f /\ newer' = (End(f) < cursor) /\ cursor' = cursor
      BY <1>17, <2>2, <3>3, <3>7 DEF Behind
    <3>10. StoreTyped'
      BY <1>2, <1>3, <1>5, <1>6, <1>17, <3>8, <3>9 DEF StoreTyped
    <3>11. NewerSound'
      <4>1. SUFFICES ASSUME f.generation # 0
                     PROVE  End(f) <= cursor /\ (End(f) # cursor => End(f) < cursor)
        BY <3>9 DEF NewerSound
      <4>2. w.generation # 0
        BY <3>2, <3>4, <3>8, <4>1
      <4>3. End(w) <= cursor
        BY <3>1, <4>2 DEF ReadInv, NewerSound
      <4>4. f \in Readings
        BY <3>8, AreReadings
      <4>5. End(f) \in Nat /\ End(w) \in Nat /\ cursor \in Nat /\ End(f) <= End(w)
        <5>1. End(f) \in Nat
          BY <4>4, ReadingIs
        <5>2. End(w) \in Nat
          BY <3>4, ReadingIs
        <5>3. cursor \in Nat
          BY <1>3
        <5> QED
          BY <3>5, <3>8, <5>1, <5>2, <5>3
      <4> QED
        BY <4>3, <4>5
    <3> QED
      BY <1>4, <1>10, <1>11, <1>13, <1>17, <3>8, <3>9, <3>10, <3>11 DEF StoreSound
  <2> QED
    BY <2>1, <2>2
<1>18. CASE Select(rest)
  <2>1. StoreSound' /\ toServer' \in [Flows -> Seq(ServerMessage)]
    BY <1>2, <1>5, <1>6, <1>7, <1>18, SelectSound
  <2> QED
    BY <1>13, <2>1
<1> QED
  BY <1>1, <1>14, <1>15, <1>16, <1>17, <1>18

\* A window that stays is as sound as before.
LEMMA WindowStays ==
  ASSUME ReadInv, Keeps, window' = window PROVE ReadSound(window)' /\ window' \in Windows
<1>1. PICK w \in Windows : w = window /\ ReadSound(w)
  BY DEF ReadInv, StoreTyped
<1>2. ReadSound(w)'
  BY <1>1, KeepsAll
<1> QED
  BY <1>1, <1>2

\* Requests that stay, too.
LEMMA RequestsStay ==
  ASSUME ReadInv, Keeps, requests' = requests PROVE RepliesSound'
<1> SUFFICES ASSUME NEW n \in DOMAIN requests PROVE ReadSound(requests[n].reply)'
  BY DEF RepliesSound
<1>1. PICK r : r = requests[n].reply
  OBVIOUS
<1>2. r \in Replies /\ ReadSound(r)
  BY <1>1, AreReadings DEF ReadInv, RepliesSound, StoreTyped
<1>3. ReadSound(r)' /\ requests'[n].reply = r
  BY <1>1, <1>2, KeepsAll
<1> QED
  BY <1>3

\* A block extends the window where it ends, or only moves the place where the
\* store has stopped.
LEMMA ChunkSound ==
  ASSUME ReadInv, UNCHANGED <<diskVars, rootVars, job, socket>>, NEW message \in ChunkMessage,
         ReadSound(message), TakeChunk(message)
  PROVE  StoreSound' /\ toServer' \in [Flows -> Seq(ServerMessage)]
<1>1. Looks /\ Keeps
  <2>1. Looks
    BY DEF Looks, diskVars, rootVars, ReadInv, DiskTyped
  <2> QED
    BY <2>1, LookKeeps DEF ReadInv, ServerTyped, Keeps
<1>2. /\ requests \in Seq(Requests) /\ socket \in 0..Connections /\ revision \in Nat
      /\ cursor \in Lengths /\ window \in Windows /\ following \in BOOLEAN /\ newer \in BOOLEAN
      /\ status \in {"choose", "loading", "live", "failed", "unavailable", "resync", "reconnecting"}
      /\ ReadSound(window) /\ (job.kind = "content" => Pending)
  BY DEF ReadInv, StoreTyped
<1>3. CASE Select(requests)
  <2>1. \A n \in DOMAIN requests : ReadSound(requests[n].reply)
    BY DEF ReadInv, RepliesSound
  <2>2. job.kind = "content" => requests # <<>> /\ Head(requests).reply = NoReply
    BY <1>2 DEF Pending
  <2> QED
    BY <1>2, <1>3, <2>1, <2>2, SelectSound
<1>4. CASE ~Select(requests)
  <2>1. PICK w, y, z :
           /\ w = window /\ y = [generation |-> message.generation, start |-> message.start,
                                 bytes |-> message.bytes]
           /\ z = [generation |-> w.generation, start |-> w.start, bytes |-> w.bytes \o y.bytes]
    OBVIOUS
  <2>2. y \in Readings /\ ReadSound(y) /\ w \in Readings /\ ReadSound(w) /\ w \in Windows
    BY <1>2, <2>1, AreReadings
  <2>3. End(y) = End(message)
    BY <2>1 DEF End
  <2>4. /\ message.generation = w.generation /\ message.start = cursor
        /\ following => message.start = End(w)
        /\ IF following THEN window' = KeepLast([window EXCEPT !.bytes = @ \o message.bytes])
                             /\ newer' = newer
           ELSE newer' = TRUE /\ window' = window
        /\ cursor' = End(message)
        /\ Send([type |-> "ack", rev |-> revision, generation |-> message.generation,
                 offset |-> cursor'])
        /\ UNCHANGED <<revision, following, status, requests>>
    <3>1. /\ message.generation = window.generation /\ message.start = cursor
          /\ following => message.start = End(window)
          /\ IF following THEN window' = KeepLast([window EXCEPT !.bytes = @ \o message.bytes])
                               /\ UNCHANGED newer
             ELSE newer' = TRUE /\ UNCHANGED window
          /\ cursor' = End(message)
          /\ Send([type |-> "ack", rev |-> revision, generation |-> message.generation,
                   offset |-> cursor'])
          /\ UNCHANGED <<revision, following, status, requests>>
      <4>2. /\ message.generation = window.generation /\ message.start = cursor
            /\ following => message.start = End(window)
        BY <1>4 DEF TakeChunk
      <4>3. IF following THEN window' = KeepLast([window EXCEPT !.bytes = @ \o message.bytes])
                              /\ UNCHANGED newer
            ELSE newer' = TRUE /\ UNCHANGED window
        BY <1>4 DEF TakeChunk
      <4>4. /\ cursor' = End(message)
            /\ Send([type |-> "ack", rev |-> revision, generation |-> message.generation,
                     offset |-> cursor'])
            /\ UNCHANGED <<revision, following, status, requests>>
        BY <1>4 DEF TakeChunk
      <4> QED
        BY <4>2, <4>3, <4>4
    <3>2. w = window
      BY <2>1
    <3> QED
      BY <3>1, <3>2
  <2>5. cursor' \in Lengths /\ cursor' = End(y) /\ End(y) \in Nat /\ cursor <= cursor'
    <3>1. End(y) \in Nat /\ End(y) <= MaxLen /\ y.start <= End(y) /\ y.start = message.start
      <4>1. y.start \in Nat /\ Len(y.bytes) \in Nat /\ End(y) = y.start + Len(y.bytes) /\ End(y) <= MaxLen
        BY <2>2, ReadingIs
      <4> QED
        BY <2>1, <4>1
    <3> QED
      BY <2>3, <2>4, <3>1
  <2>6. /\ window' \in Windows /\ ReadSound(window)' /\ newer' \in BOOLEAN
        /\ NewerSound'
    <3>1. CASE following
      <4>1. z = [window EXCEPT !.bytes = @ \o message.bytes]
        <5>1. PICK v : v = w.bytes \o y.bytes
          OBVIOUS
        <5>2. w = [generation |-> w.generation, start |-> w.start, bytes |-> w.bytes]
          BY <2>2 DEF Windows
        <5>3. [w EXCEPT !.bytes = v] = [generation |-> w.generation, start |-> w.start, bytes |-> v]
          BY <5>2
        <5>4. y.bytes = message.bytes
          BY <2>1
        <5>5. [window EXCEPT !.bytes = @ \o message.bytes] = [w EXCEPT !.bytes = w.bytes \o y.bytes]
          BY <2>1, <5>4, Zenon
        <5> QED
          BY <2>1, <5>1, <5>3, <5>5, Zenon
      <4>2. y.start = End(w) /\ y.generation = w.generation
        BY <2>1, <2>4, <3>1
      <4>3. z \in Readings /\ End(z) = End(y)
        BY <2>1, <2>2, <4>2, JoinIs, Zenon
      <4>4. ReadSound(z)
        <5>1. z.generation = w.generation /\ z.start = w.start /\ z.bytes = w.bytes \o y.bytes
          BY <2>1
        <5> QED
          BY <2>2, <4>2, <4>3, <5>1, MeetSound DEF ReadInv
      <4>5. PICK l : l = KeepLast(z)
        OBVIOUS
      <4>6. l \in Windows /\ ReadSound(l) /\ End(l) = End(z)
        BY <4>3, <4>4, <4>5, KeepIs
      <4>7. window' = l /\ newer' = newer
        BY <2>4, <3>1, <4>1, <4>5
      <4>8. ReadSound(l)'
        BY <1>1, <4>6, KeepsAll
      <4>9. NewerSound'
        BY <2>5, <4>3, <4>6, <4>7 DEF NewerSound
      <4> QED
        BY <1>2, <4>6, <4>7, <4>8, <4>9
    <3>2. CASE ~following
      <4>1. newer' = TRUE /\ window' = window
        BY <2>4, <3>2
      <4>2. ReadSound(window)' /\ window' \in Windows
        BY <1>1, <4>1, WindowStays
      <4>3. NewerSound'
        <5>1. SUFFICES ASSUME w.generation # 0 PROVE End(w) <= cursor'
          BY <2>1, <4>1 DEF NewerSound
        <5>2. End(w) <= cursor
          BY <2>1, <5>1 DEF ReadInv, NewerSound
        <5>3. End(w) \in Nat /\ cursor \in Nat /\ cursor' \in Nat
          BY SMTT(30), <1>2, <2>2, <2>5, ReadingIs
        <5> QED
          BY <2>5, <5>2, <5>3
      <4> QED
        BY <4>1, <4>2, <4>3
    <3> QED
      BY <1>2, <3>1, <3>2
  <2>7. RepliesSound'
    BY <1>1, <2>4, RequestsStay
  <2>8. StoreTyped'
    BY <1>2, <2>4, <2>5, <2>6 DEF StoreTyped, Pending
  <2>9. toServer' \in [Flows -> Seq(ServerMessage)]
    <3>1. PICK m : m = [type |-> "ack", rev |-> revision, generation |-> message.generation,
                        offset |-> cursor']
      OBVIOUS
    <3>2. message.generation \in Nat
      BY DEF ChunkMessage
    <3>3. m \in ServerMessage
      BY <1>2, <2>5, <3>1, <3>2 DEF ServerMessage, AckMessage
    <3>4. Send(m)
      BY <2>4, <3>1
    <3> QED
      BY <3>3, <3>4, SendIs DEF ReadInv
  <2> QED
    BY <2>6, <2>7, <2>8, <2>9 DEF StoreSound
<1> QED
  BY <1>3, <1>4

\* A message is taken from the connection, and followed, shown or left.
LEMMA DeliverKeeps ==
  ASSUME ReadInv, Deliver, UNCHANGED <<diskVars, rootVars, dataVars, cancel, flow, job>>
  PROVE  ReadInv'
<1>1. PICK message :
         /\ message = Head(toClient[socket])
         /\ \/ UNCHANGED <<toServer, viewVars, requests, link>>
            \/ /\ message.type \in Notices /\ Shows(StatusOf(message.type))
               /\ link' = IF message.type = "resync-required"
                          THEN [link EXCEPT ![socket] = "cut"] ELSE link
            \/ message.type = "chunk" /\ TakeChunk(message) /\ UNCHANGED link
            \/ Select(requests) /\ UNCHANGED link
  BY DEF Deliver
<1>2. /\ socket # 0 /\ toClient[socket] # <<>> /\ socket' = socket
      /\ toClient' = [toClient EXCEPT ![socket] = Tail(toClient[socket])]
  BY Zenon DEF Deliver
<1>3. /\ requests \in Seq(Requests) /\ socket \in Flows /\ revision \in Nat
      /\ cursor \in Lengths /\ window \in Windows /\ following \in BOOLEAN /\ newer \in BOOLEAN
      /\ status \in {"choose", "loading", "live", "failed", "unavailable", "resync", "reconnecting"}
      /\ (job.kind = "content" => Pending)
  BY <1>2 DEF ReadInv, StoreTyped, Flows
<1>4. /\ toServer \in [Flows -> Seq(ServerMessage)] /\ toClient \in [Flows -> Seq(ClientMessage)]
      /\ link \in [Flows -> {"none", "open", "cut"}]
  BY DEF ReadInv, ServerTyped
<1>5. toClient[socket] \in Seq(ClientMessage)
  BY <1>3, <1>4
<1>6. message \in ClientMessage /\ Tail(toClient[socket]) \in Seq(ClientMessage)
  BY <1>1, <1>2, <1>5, TailIs
<1>7. toClient' \in [Flows -> Seq(ClientMessage)]
  BY <1>2, <1>3, <1>4, <1>6
<1>8. ASSUME NEW d \in Flows, NEW n \in DOMAIN toClient'[d]
      PROVE  \E k \in DOMAIN toClient[d] : toClient'[d][n] = toClient[d][k]
  <2>1. CASE d = socket
    <3>1. toClient'[d] = Tail(toClient[socket])
      BY <1>2, <1>4, <2>1
    <3>2. n + 1 \in DOMAIN toClient[socket] /\ Tail(toClient[socket])[n] = toClient[socket][n + 1]
      BY <1>2, <1>5, <3>1, TailIs
    <3> QED
      BY <2>1, <3>1, <3>2
  <2>2. CASE d # socket
    BY <1>2, <1>4, <2>2
  <2> QED
    BY <2>1, <2>2
<1>9. ASSUME StoreSound', toServer' \in [Flows -> Seq(ServerMessage)],
             link' \in [Flows -> {"none", "open", "cut"}]
      PROVE  ReadInv'
  BY <1>7, <1>8, <1>9, StoreIs
<1>10. Looks /\ Keeps
  <2>1. Looks
    BY DEF Looks, diskVars, rootVars, ReadInv, DiskTyped
  <2> QED
    BY <2>1, LookKeeps DEF ReadInv, ServerTyped, Keeps
<1>11. ASSUME UNCHANGED <<toServer, revision, cursor, window, following, newer, requests>>,
              status' \in {"choose", "loading", "live", "failed", "unavailable", "resync", "reconnecting"}
       PROVE  StoreSound' /\ toServer' \in [Flows -> Seq(ServerMessage)]
  <2>1. StoreTyped'
    BY <1>2, <1>3, <1>11 DEF StoreTyped, Pending, Flows
  <2>2. NewerSound'
    BY <1>11 DEF ReadInv, NewerSound
  <2> QED
    BY <1>4, <1>10, <1>11, <2>1, <2>2, WindowStays, RequestsStay DEF StoreSound
<1>12. CASE UNCHANGED <<toServer, viewVars, requests, link>>
  <2>1. /\ UNCHANGED <<toServer, revision, cursor, window, following, newer, requests>>
        /\ status' = status /\ link' = link
    BY <1>12 DEF viewVars
  <2> QED
    BY <1>3, <1>4, <1>9, <1>11, <2>1
<1>13. CASE /\ message.type \in Notices /\ Shows(StatusOf(message.type))
            /\ link' = IF message.type = "resync-required" THEN [link EXCEPT ![socket] = "cut"] ELSE link
  <2>1. /\ UNCHANGED <<toServer, revision, cursor, window, following, newer, requests>>
        /\ status' = StatusOf(message.type)
    BY <1>13 DEF Shows
  <2>2. StatusOf(message.type) \in {"live", "unavailable", "resync"}
    BY <1>13 DEF Notices, StatusOf
  <2>3. link' \in [Flows -> {"none", "open", "cut"}]
    BY <1>3, <1>4, <1>13
  <2> QED
    BY <1>9, <1>11, <2>1, <2>2, <2>3
<1>14. CASE message.type = "chunk" /\ TakeChunk(message) /\ UNCHANGED link
  <2>1. message \in ChunkMessage
    BY <1>6, <1>14, ChunksAre
  <2>2. ReadSound(message)
    <3>1. 1 \in DOMAIN toClient[socket] /\ message = toClient[socket][1]
      BY <1>1, <1>2, <1>5
    <3> QED
      BY <1>3, <1>14, <3>1 DEF ReadInv, BlocksSound
  <2>3. StoreSound' /\ toServer' \in [Flows -> Seq(ServerMessage)]
    BY <1>2, <1>14, <2>1, <2>2, ChunkSound
  <2> QED
    BY <1>4, <1>9, <1>14, <2>3
<1>15. CASE Select(requests) /\ UNCHANGED link
  <2>1. \A n \in DOMAIN requests : ReadSound(requests[n].reply)
    BY DEF ReadInv, RepliesSound
  <2>2. job.kind = "content" => requests # <<>> /\ Head(requests).reply = NoReply
    BY <1>3 DEF Pending
  <2>3. StoreSound' /\ toServer' \in [Flows -> Seq(ServerMessage)]
    BY <1>2, <1>3, <1>15, <2>1, <2>2, SelectSound
  <2> QED
    BY <1>4, <1>9, <1>15, <2>3
<1> QED
  BY <1>1, <1>12, <1>13, <1>14, <1>15

\* The other steps of the store: the end of a connection and the user's clicks.
LEMMA ClickKeeps ==
  ASSUME ReadInv, OnClose \/ UserSelect \/ Older \/ SetFollowing,
         UNCHANGED <<diskVars, rootVars, dataVars, cancel, flow, job>>
  PROVE  ReadInv'
<1>1. /\ requests \in Seq(Requests) /\ socket \in 0..Connections /\ revision \in Nat
      /\ cursor \in Lengths /\ window \in Windows /\ following \in BOOLEAN /\ newer \in BOOLEAN
      /\ status \in {"choose", "loading", "live", "failed", "unavailable", "resync", "reconnecting"}
      /\ (job.kind = "content" => Pending)
  BY DEF ReadInv, StoreTyped
<1>2. /\ toServer \in [Flows -> Seq(ServerMessage)] /\ toClient \in [Flows -> Seq(ClientMessage)]
      /\ link \in [Flows -> {"none", "open", "cut"}]
  BY DEF ReadInv, ServerTyped
<1>3. Looks /\ Keeps
  <2>1. Looks
    BY DEF Looks, diskVars, rootVars, ReadInv, DiskTyped
  <2> QED
    BY <2>1, LookKeeps DEF ReadInv, ServerTyped, Keeps
<1>4. ASSUME StoreSound', toServer' \in [Flows -> Seq(ServerMessage)], toClient' = toClient, link' = link
      PROVE  ReadInv'
  <2>1. \A d \in Flows : \A n \in DOMAIN toClient'[d] :
           \E k \in DOMAIN toClient[d] : toClient'[d][n] = toClient[d][k]
    BY <1>4
  <2> QED
    BY <1>2, <1>4, <2>1, StoreIs
<1>5. CASE OnClose
  <2>1. /\ socket # 0 /\ socket' = 0 /\ toClient' = [toClient EXCEPT ![socket] = <<>>]
        /\ status' = "reconnecting"
        /\ UNCHANGED <<toServer, link, revision, cursor, window, following, newer, requests>>
    BY <1>5 DEF OnClose
  <2>2. StoreTyped'
    BY <1>1, <2>1 DEF StoreTyped, Pending
  <2>3. NewerSound'
    BY <2>1 DEF ReadInv, NewerSound
  <2>4. StoreSound'
    BY <1>3, <2>1, <2>2, <2>3, WindowStays, RequestsStay DEF StoreSound
  <2>5. toClient' \in [Flows -> Seq(ClientMessage)]
    <3>1. <<>> \in Seq(ClientMessage)
      OBVIOUS
    <3> QED
      BY <1>2, <2>1, <3>1
  <2>6. ASSUME NEW d \in Flows, NEW n \in DOMAIN toClient'[d]
        PROVE  \E k \in DOMAIN toClient[d] : toClient'[d][n] = toClient[d][k]
    <3>1. CASE d = socket
      <4>1. toClient'[d] = <<>>
        BY <1>2, <2>1, <3>1
      <4> QED
        BY <4>1
    <3>2. CASE d # socket
      BY <1>2, <2>1, <3>2
    <3> QED
      BY <3>1, <3>2
  <2> QED
    BY <1>2, <2>1, <2>4, <2>5, <2>6, StoreIs
<1>6. CASE UserSelect
  <2>1. Select(requests) /\ UNCHANGED <<toClient, link, socket>>
    BY <1>6 DEF UserSelect
  <2>2. \A n \in DOMAIN requests : ReadSound(requests[n].reply)
    BY DEF ReadInv, RepliesSound
  <2>3. job.kind = "content" => requests # <<>> /\ Head(requests).reply = NoReply
    BY <1>1 DEF Pending
  <2>4. StoreSound' /\ toServer' \in [Flows -> Seq(ServerMessage)]
    BY <1>1, <2>1, <2>2, <2>3, SelectSound
  <2> QED
    BY <1>4, <2>1, <2>4
<1>7. CASE Older
  <2>1. /\ following' = FALSE /\ requests' = Append(requests, Request("older", revision, window))
        /\ UNCHANGED <<toServer, toClient, link, socket, revision, cursor, window, newer, status>>
    BY <1>7 DEF Older
  <2>2. PICK q : q = Request("older", revision, window)
    OBVIOUS
  <2>3. q \in Requests /\ q.reply = NoReply
    <3>1. q = [kind |-> "older", rev |-> revision, before |-> window.start,
               generation |-> window.generation, reply |-> NoReply]
      BY <2>2 DEF Request
    <3>2. window.start \in Lengths /\ window.generation \in Nat
      BY <1>1 DEF Windows
    <3>3. NoReply \in Replies
      BY EmptySound
    <3> QED
      BY <1>1, <3>1, <3>2, <3>3 DEF Requests
  <2>4. requests' = Append(requests, q)
    BY <2>1, <2>2
  <2>5. requests' \in Seq(Requests) /\ (job'.kind = "content" => Pending')
    BY <1>1, <2>3, <2>4, QueueIs DEF Pending
  <2>6. StoreTyped'
    BY <1>1, <2>1, <2>5 DEF StoreTyped
  <2>7. NewerSound'
    BY <2>1 DEF ReadInv, NewerSound
  <2>8. RepliesSound'
    BY <1>1, <1>3, <2>3, <2>4, RequestSound DEF ReadInv, RepliesSound
  <2> QED
    BY <1>2, <1>3, <1>4, <2>1, <2>6, <2>7, <2>8, WindowStays DEF StoreSound
<1>8. CASE SetFollowing
  <2>1. /\ following' = ~following
        /\ UNCHANGED <<toServer, toClient, link, socket, revision, cursor, window, newer, status, requests>>
    BY <1>8 DEF SetFollowing
  <2>2. StoreTyped'
    BY <1>1, <2>1 DEF StoreTyped, Pending
  <2>3. NewerSound'
    BY <2>1 DEF ReadInv, NewerSound
  <2> QED
    BY <1>2, <1>3, <1>4, <2>1, <2>2, <2>3, WindowStays, RequestsStay DEF StoreSound
<1> QED
  BY <1>5, <1>6, <1>7, <1>8

\* The steps of the store keep what has been read.
LEMMA StoreKeeps == ASSUME ReadInv, StoreStep PROVE ReadInv'
BY RespondKeeps, DeliverKeeps, ClickKeeps DEF StoreStep

\* A connection that opens, where the store subscribes again, or that is cut.
LEMMA LinkKeeps == ASSUME ReadInv, LinkStep PROVE ReadInv'
<1>1. PICK c \in Flows : Connect(c) \/ Cut(c)
  BY DEF LinkStep
<1>2. UNCHANGED <<diskVars, rootVars, dataVars, cancel, job, requests>>
  BY DEF LinkStep
<1>3. /\ requests \in Seq(Requests) /\ socket \in 0..Connections /\ revision \in Nat
      /\ cursor \in Lengths /\ window \in Windows /\ following \in BOOLEAN /\ newer \in BOOLEAN
      /\ status \in {"choose", "loading", "live", "failed", "unavailable", "resync", "reconnecting"}
      /\ (job.kind = "content" => Pending)
  BY DEF ReadInv, StoreTyped
<1>4. /\ toServer \in [Flows -> Seq(ServerMessage)] /\ toClient \in [Flows -> Seq(ClientMessage)]
      /\ link \in [Flows -> {"none", "open", "cut"}]
      /\ flow \in [Flows -> [pc : Where, generation : Nat]]
  BY DEF ReadInv, ServerTyped
<1>5. /\ link' \in [Flows -> {"none", "open", "cut"}] /\ toClient' = toClient
      /\ UNCHANGED <<revision, cursor, window, following, newer>>
      /\ socket' \in 0..Connections
      /\ status' \in {status, "live", "choose"}
  <2>1. CASE Connect(c)
    <3>1. /\ socket' = c /\ link' = [link EXCEPT ![c] = "open"]
          /\ status' \in {"live", "choose"}
          /\ UNCHANGED <<toClient, revision, cursor, window, following, newer>>
      BY <2>1 DEF Connect
    <3>2. c \in 0..Connections
      BY DEF Flows
    <3> QED
      BY <1>4, <3>1, <3>2
  <2>2. CASE Cut(c)
    <3>1. /\ link' = [link EXCEPT ![c] = "cut"] /\ toClient' = toClient /\ socket' = socket
          /\ UNCHANGED <<revision, cursor, window, following, newer, status>>
      BY <2>2 DEF Cut, viewVars
    <3> QED
      BY <1>3, <1>4, <3>1
  <2> QED
    BY <1>1, <2>1, <2>2
<1>6. flow' \in [Flows -> [pc : Where, generation : Nat]]
  <2>1. CASE Connect(c)
    <3>1. Goto(c, "starting") /\ "starting" \in Where
      BY <2>1 DEF Connect, Where
    <3> QED
      BY <3>1, GotoIs DEF ReadInv
  <2>2. CASE Cut(c)
    BY <1>4, <2>2 DEF Cut
  <2> QED
    BY <1>1, <2>1, <2>2
<1>7. toServer' \in [Flows -> Seq(ServerMessage)]
  <2>1. CASE Connect(c)
    <3>1. toServer' = [toServer EXCEPT ![c] = OnOpen]
      BY <2>1 DEF Connect
    <3>2. PICK m : m = Subscription(window.generation, cursor)
      OBVIOUS
    <3>3. m \in ServerMessage
      <4>1. window.generation \in Nat
        BY <1>3 DEF Windows
      <4> QED
        BY <1>3, <3>2, <4>1 DEF Subscription, ServerMessage, SubscribeMessage
    <3>4. OnOpen = <<>> \/ OnOpen = <<m>>
      BY <3>2 DEF OnOpen
    <3>5. OnOpen \in Seq(ServerMessage)
      <4>1. <<>> \in Seq(ServerMessage)
        OBVIOUS
      <4>2. <<m>> \in Seq(ServerMessage)
        BY <3>3
      <4> QED
        BY <3>4, <4>1, <4>2
    <3> QED
      BY <1>4, <3>1, <3>5
  <2>2. CASE Cut(c)
    BY <1>4, <2>2 DEF Cut
  <2> QED
    BY <1>1, <2>1, <2>2
<1>8. Looks /\ Keeps
  <2>1. Looks
    BY <1>2 DEF Looks, diskVars, rootVars, ReadInv, DiskTyped
  <2> QED
    BY <2>1, LookKeeps DEF ReadInv, ServerTyped, Keeps
<1>9. DiskTyped' /\ SeenSound' /\ JobSound'
  BY <1>2, <1>8, LookTyped, JobRests DEF ReadInv, ServerTyped, diskVars, rootVars
<1>10. ServerTyped'
  BY <1>2, <1>5, <1>6, <1>7, <1>4 DEF ReadInv, ServerTyped, dataVars, rootVars
<1>11. StoreTyped'
  BY <1>2, <1>3, <1>5 DEF StoreTyped, Pending
<1>12. NewerSound'
  BY <1>5 DEF ReadInv, NewerSound
<1>13. BlocksSound'
  <2> SUFFICES ASSUME NEW d \in Flows, NEW n \in DOMAIN toClient[d], toClient[d][n].type = "chunk"
               PROVE  ReadSound(toClient[d][n])'
    BY <1>5 DEF BlocksSound
  <2>1. PICK m : m = toClient[d][n]
    OBVIOUS
  <2>2. m \in ChunkMessage /\ ReadSound(m)
    BY <1>4, <2>1, ChunksAre DEF ReadInv, BlocksSound
  <2>3. ReadSound(m)' /\ toClient'[d][n] = m
    BY <1>5, <1>8, <2>1, <2>2, KeepsAll
  <2> QED
    BY <2>3
<1> QED
  BY <1>2, <1>5, <1>8, <1>9, <1>10, <1>11, <1>12, <1>13, WindowStays, RequestsStay DEF ReadInv

\* At first nothing has been read.
LEMMA InitReads == Init => ReadInv
<1> SUFFICES ASSUME Init PROVE ReadInv
  OBVIOUS
<1>1. PICK length \in 0..MaxLen :
         file = [at |-> "active", ino |-> 1, bytes |-> [n \in 1..length |-> 1]]
  BY DEF Init
<1>2. DiskTyped
  <2>1. [n \in 1..length |-> 1] \in Bytes /\ Len([n \in 1..length |-> 1]) = length
    <3>1. 1 \in 1..MaxVersions /\ length \in Nat
      OBVIOUS
    <3> QED
      BY <3>1 DEF Bytes
  <2>2. /\ file.bytes = [n \in 1..length |-> 1] /\ file.at = "active" /\ file.ino = 1
        /\ file \in [at : {"active", "final", "gone"}, ino : Nat \ {0}, bytes : Bytes]
    BY <1>1, <2>1
  <2>3. version = 1 /\ 1 \in 1..MaxVersions /\ node = "active"
        /\ seen = [generation |-> 0, ino |-> 0, size |-> 0, anchor |-> <<>>, torn |-> FALSE]
        /\ orphan = <<>>
    BY DEF Init
  <2>4. seen \in Sights /\ Len(seen.anchor) <= Smaller(Anchor, seen.size) /\ orphan \in Bytes
    <3>1. <<>> \in Bytes /\ 0 \in Lengths
      BY DEF Bytes
    <3> QED
      BY <2>3, <3>1 DEF Sights, Smaller
  <2>5. \A n \in DOMAIN file.bytes : file.bytes[n] <= version
    BY <2>2, <2>3
  <2>6. Len(file.bytes) <= MaxLen
    BY <2>1, <2>2
  <2> QED
    BY <2>2, <2>3, <2>4, <2>5, <2>6 DEF DiskTyped
<1>3. job = NoJob /\ NoJob \in Jobs /\ NoJob.kind = "none" /\ JobSound
  <2>1. job.step = "none"
    BY DEF Init, NoJob
  <2> QED
    BY <2>1, JobFree DEF Init, JobSound
<1>4. ServerTyped
  <2>1. NoSelection \in [rev : Nat, generation : Nat, offset : Lengths] /\ NoAck \in Lengths
    BY DEF NoSelection, NoAck
  <2>2. [c \in Flows |-> [pc |-> "none", generation |-> 0]] \in [Flows -> [pc : Where, generation : Nat]]
    BY DEF Where
  <2>3. [c \in Flows |-> <<>>] \in [Flows -> Seq(ServerMessage)]
        /\ [c \in Flows |-> <<>>] \in [Flows -> Seq(ClientMessage)]
    OBVIOUS
  <2>4. [c \in Flows |-> "none"] \in [Flows -> {"none", "open", "cut"}]
    OBVIOUS
  <2>5. /\ selection = NoSelection /\ ack = NoAck /\ unavailable = 0 /\ cancel = 0
        /\ flow = [c \in Flows |-> [pc |-> "none", generation |-> 0]]
        /\ toServer = [c \in Flows |-> <<>>] /\ toClient = [c \in Flows |-> <<>>]
        /\ link = [c \in Flows |-> "none"]
    BY DEF Init
  <2> QED
    BY <1>3, <2>1, <2>2, <2>3, <2>4, <2>5 DEF ServerTyped
<1>5. /\ window = EmptyWindow /\ requests = <<>> /\ socket = 0 /\ revision = 0 /\ cursor = 0
      /\ following = TRUE /\ newer = FALSE /\ status = "choose"
  BY DEF Init
<1>6. EmptyWindow \in Windows /\ EmptyWindow.generation = 0 /\ EmptyWindow.start = 0
      /\ EmptyWindow.bytes = <<>>
  <2>1. <<>> \in Bytes
    BY DEF Bytes
  <2> QED
    BY <2>1 DEF EmptyWindow, Windows, End
<1>7. StoreTyped
  <2>1. <<>> \in Seq(Requests) /\ 0 \in 0..Connections /\ 0 \in Lengths
    OBVIOUS
  <2> QED
    BY <1>3, <1>5, <1>6, <2>1 DEF StoreTyped
<1>8. SeenSound
  <2>1. /\ seen.generation = 0 /\ seen.ino = 0 /\ seen.size = 0 /\ seen.anchor = <<>>
        /\ version = 1 /\ file.at = "active"
    BY <1>1 DEF Init
  <2>2. Len(seen.anchor) = Smaller(Anchor, seen.size)
    BY <2>1 DEF Smaller
  <2> QED
    BY <2>1, <2>2 DEF SeenSound
<1>9. ReadSound(window)
  <2>1. EmptyWindow \in Readings
    BY <1>6, AreReadings
  <2> QED
    BY <1>2, <1>5, <1>6, <2>1, EmptyReading
<1>10. RepliesSound /\ NewerSound
  BY <1>5, <1>6 DEF RepliesSound, NewerSound
<1>11. BlocksSound
  BY DEF BlocksSound, Init
<1> QED
  BY <1>2, <1>3, <1>4, <1>7, <1>8, <1>9, <1>10, <1>11 DEF ReadInv

\* Every step keeps what has been read.
LEMMA NextReads == ReadInv /\ [Next]_vars => ReadInv'
<1> SUFFICES ASSUME ReadInv, [Next]_vars PROVE ReadInv'
  OBVIOUS
<1>1. CASE FileStep
  BY <1>1, FileStepKeeps
<1>2. ASSUME NEW c \in Flows, FlowStep(c) PROVE ReadInv'
  BY <1>2, FlowKeeps
<1>3. CASE HttpStep
  BY <1>3, HttpKeeps
<1>4. CASE StoreStep
  BY <1>4, StoreKeeps
<1>5. CASE LinkStep
  BY <1>5, LinkKeeps
<1>6. CASE UNCHANGED vars
  <2>1. /\ UNCHANGED <<diskVars, rootVars, dataVars, cancel, flow, job, link, requests>>
        /\ toServer' = toServer /\ toClient' = toClient /\ UNCHANGED <<socket, viewVars>>
    BY <1>6 DEF vars
  <2>2. ServerTyped'
    BY <2>1 DEF ReadInv, ServerTyped, rootVars, dataVars
  <2> QED
    BY <2>1, <2>2, SilentStep, StoreStays
<1> QED
  BY <1>1, <1>2, <1>3, <1>4, <1>5, <1>6 DEF Next

\* Whatever happens to the file, replies, blocks and the window hold its bytes,
\* or those of a version whose end the next read will notice.
THEOREM Reads == Spec => []ReadInv
BY InitReads, NextReads, PTL DEF Spec

\* Session, connections and store have their types, and the window its maximum.
THEOREM FollowTypes == Spec => []TypeOK
<1>1. ReadInv => TypeOK
  <2> SUFFICES ASSUME ReadInv PROVE TypeOK
    OBVIOUS
  <2>1. /\ file \in [at : {"active", "final", "gone"}, ino : Nat, bytes : Bytes]
        /\ version \in 1..MaxVersions /\ node \in {"active", "final"}
        /\ seen \in [generation : Nat, ino : Nat, size : 0..MaxLen, anchor : Bytes, torn : BOOLEAN]
    BY DEF ReadInv, DiskTyped, Sights
  <2>2. /\ selection \in [rev : Nat, generation : Nat, offset : 0..MaxLen]
        /\ ack \in 0..MaxLen /\ unavailable \in Nat /\ cancel \in Nat
        /\ flow \in [Flows -> [pc : Where, generation : Nat]]
        /\ link \in [Flows -> {"none", "open", "cut"}]
    BY DEF ReadInv, ServerTyped
  <2>3. job.kind \in {"none", "poll", "content"}
    BY DEF ReadInv, ServerTyped, Jobs, JobFields
  <2>4. /\ socket \in 0..Connections /\ cursor \in 0..MaxLen
        /\ status \in {"choose", "loading", "live", "failed", "unavailable", "resync", "reconnecting"}
    BY DEF ReadInv, StoreTyped
  <2>5. window \in [generation : Nat, start : 0..MaxLen, bytes : Bytes] /\ Len(window.bytes) <= MaxBytes
    BY DEF ReadInv, StoreTyped, Windows
  <2> QED
    BY <2>1, <2>2, <2>3, <2>4, <2>5 DEF TypeOK
<1> QED
  BY <1>1, Reads, PTL

\* The window never merges two versions of the file.
THEOREM NeverMerges == Spec => []WindowNeverMerges
<1>1. ReadInv => WindowNeverMerges
  BY DEF ReadInv, ReadSound, Doubt, WindowNeverMerges
<1> QED
  BY <1>1, Reads, PTL

\* What the store has acknowledged and does not show is announced.
THEOREM LeftOutIsTold == Spec => []NewerIsTold
<1>1. ReadInv => NewerIsTold
  BY DEF ReadInv, NewerSound, NewerIsTold
<1> QED
  BY <1>1, Reads, PTL
-----------------------------------------------------------------------------
(* One block at a time, one connection at a time *)

None(s, T) == \A n \in DOMAIN s : s[n] \notin T
AtMostOne(s, T) == \A m, n \in DOMAIN s : s[m] \in T /\ s[n] \in T => m = n
Fewer(s, t, T) == (None(s, T) => None(t, T)) /\ (AtMostOne(s, T) => AtMostOne(t, T))
Kept(s, t) == \A n \in DOMAIN t : \E k \in DOMAIN s : t[n] = s[k]

BlockOf(rev) == {m \in ClientMessage : m.type = "chunk" /\ m.rev = rev}
AckOf(rev) == {m \in ServerMessage : m.type = "ack" /\ m.rev = rev}
SubscribeOf(rev) == {m \in ServerMessage : m.type = "subscribe" /\ m.rev = rev}
SnapshotOf(rev) == {q \in Requests : q.kind = "snapshot" /\ q.rev = rev}

Serving == {"top", "select", "poll", "reading", "leaving", "tidying"}

\* The flows follow each other, and only the one that serves has a selection.
FlowsSound ==
    /\ \A c, d \in Flows : c < d /\ flow[d].pc # "none" => flow[c].pc = "done"
    /\ \A c \in Flows :
          /\ flow[c].pc \in Serving => flow[c].generation = cancel
          /\ flow[c].pc = "none" => toServer[c] = <<>> /\ toClient[c] = <<>>
          /\ flow[c].pc = "none" <=> link[c] = "none"
          /\ flow[c].pc = "done" => link[c] = "cut"
          /\ link[c] = "open" => socket = c
    /\ selection # NoSelection => \E c \in Flows : flow[c].pc \in Serving
    /\ job.kind = "poll" =>
          job.flow \in Flows /\ flow[job.flow].pc = "reading" /\ ack = NoAck /\ selection # NoSelection

\* No message is of a selection to come, and each selection is read once.
RevisionsSound ==
    /\ selection.rev <= revision
    /\ \A c \in Flows :
          /\ \A n \in DOMAIN toServer[c] :
                toServer[c][n].type \in {"subscribe", "ack"} => toServer[c][n].rev <= revision
          /\ \A n \in DOMAIN toClient[c] :
                toClient[c][n].type = "chunk" => toClient[c][n].rev <= revision
    /\ \A n \in DOMAIN requests : requests[n].rev <= revision
    /\ AtMostOne(requests, SnapshotOf(revision))
    /\ ~None(requests, SnapshotOf(revision)) => window.generation = 0

\* Nothing of a selection is on its way before the client has subscribed, and
\* nothing while the server may send.
Silent(c, rev) == None(toClient[c], BlockOf(rev)) /\ None(toServer[c], AckOf(rev))
InFlight(c, rev) ==
    /\ AtMostOne(toClient[c], BlockOf(rev)) /\ AtMostOne(toServer[c], AckOf(rev))
    /\ None(toClient[c], BlockOf(rev)) \/ None(toServer[c], AckOf(rev))
    /\ link[c] = "open" =>
          /\ AtMostOne(toServer[c], SubscribeOf(rev))
          /\ selection.rev = rev /\ ack = NoAck => Silent(c, rev)
          /\ ~None(toServer[c], SubscribeOf(rev)) => Silent(c, rev) /\ selection.rev # rev
          /\ ~None(requests, SnapshotOf(rev)) /\ rev = revision =>
                /\ Silent(c, rev) /\ selection.rev # rev
                /\ None(toServer[c], SubscribeOf(rev))

FlightInv ==
    FlowsSound /\ RevisionsSound /\ \A c \in Flows, rev \in Nat \ {0} : InFlight(c, rev)

\* A step after which no more of the selection is on its way, and no more may come.
Calmer(c, rev) ==
    /\ Fewer(toClient[c], toClient'[c], BlockOf(rev))
    /\ Fewer(toServer[c], toServer'[c], AckOf(rev))
    /\ link'[c] = "open" =>
          /\ link[c] = "open"
          /\ Fewer(toServer[c], toServer'[c], SubscribeOf(rev))
          /\ selection'.rev = rev => selection.rev = rev /\ (ack' = NoAck => ack = NoAck)
          /\ ~None(requests', SnapshotOf(rev)) /\ rev = revision' =>
                ~None(requests, SnapshotOf(rev)) /\ rev = revision

\* A step of the flow `c`, which serves alone.
Moves(c) ==
    /\ flow[c].pc \notin {"none", "done"} /\ flow'[c].pc # "none"
    /\ \A d \in Flows \ {c} : /\ flow'[d] = flow[d] /\ link'[d] = link[d]
                              /\ toServer'[d] = toServer[d] /\ toClient'[d] = toClient[d]
    /\ flow'[c].pc \in Serving => flow'[c].generation = cancel'
    /\ flow'[c].pc = "done" => link'[c] = "cut"
    /\ link'[c] \in {link[c], "cut"}
    /\ selection' # NoSelection => flow'[c].pc \in Serving
    /\ job'.kind = "poll" =>
          job'.flow = c /\ flow'[c].pc = "reading" /\ ack' = NoAck /\ selection' # NoSelection
    /\ selection'.rev <= revision /\ Kept(toServer[c], toServer'[c])
    /\ \A n \in DOMAIN toClient'[c] :
          toClient'[c][n].type = "chunk" => toClient'[c][n].rev <= revision

\* A queue that loses messages has no more of any kind.
LEMMA QueueShorter ==
  ASSUME NEW S, NEW s \in Seq(S), NEW t, t = s \/ (s # <<>> /\ t = Tail(s)) \/ t = <<>>
  PROVE  Kept(s, t) /\ \A T : Fewer(s, t, T)
<1>1. CASE t = s
  BY <1>1 DEF Kept, Fewer
<1>2. CASE t = <<>>
  BY <1>2 DEF Kept, Fewer, None, AtMostOne
<1>3. CASE s # <<>> /\ t = Tail(s)
  <2>1. /\ \A n \in DOMAIN t : n + 1 \in DOMAIN s /\ t[n] = s[n + 1]
        /\ t \in Seq(S) /\ DOMAIN t = 1..Len(t)
    BY <1>3, TailIs
  <2>2. ASSUME NEW m \in DOMAIN t, NEW n \in DOMAIN t, m + 1 = n + 1 PROVE m = n
    BY <2>1, <2>2
  <2> QED
    BY <2>1, <2>2 DEF Kept, Fewer, None, AtMostOne
<1> QED
  BY <1>1, <1>2, <1>3

\* The first message of a queue is none of a kind it has not, and the last of
\* a kind it has once.
LEMMA HeadCounts ==
  ASSUME NEW S, NEW s \in Seq(S), s # <<>>, NEW T, Head(s) \in T
  PROVE  ~None(s, T) /\ (AtMostOne(s, T) => None(Tail(s), T))
<1>1. /\ Head(s) = s[1] /\ 1 \in DOMAIN s /\ DOMAIN Tail(s) = 1..Len(Tail(s))
      /\ \A n \in DOMAIN Tail(s) : n + 1 \in DOMAIN s /\ Tail(s)[n] = s[n + 1]
  BY TailIs
<1>2. \A n \in DOMAIN Tail(s) : n + 1 # 1
  BY <1>1
<1> QED
  BY <1>1, <1>2 DEF None, AtMostOne

\* A message of another kind, or the first of its kind.
LEMMA QueueLonger ==
  ASSUME NEW S, NEW s \in Seq(S), NEW m \in S, NEW T
  PROVE  /\ m \notin T => Fewer(s, Append(s, m), T)
         /\ None(s, T) => AtMostOne(Append(s, m), T)
<1>1. /\ Len(s) \in Nat /\ DOMAIN s = 1..Len(s) /\ DOMAIN Append(s, m) = 1..Len(s) + 1
      /\ \A n \in 1..Len(s) + 1 : Append(s, m)[n] = IF n <= Len(s) THEN s[n] ELSE m
  OBVIOUS
<1>2. \A n \in DOMAIN Append(s, m) :
         \/ n \in DOMAIN s /\ Append(s, m)[n] = s[n]
         \/ n = Len(s) + 1 /\ Append(s, m)[n] = m
  BY <1>1
<1> QED
  BY <1>2 DEF Fewer, None, AtMostOne

\* Messages of another kind, or the first of their kind.
LEMMA QueuesJoined ==
  ASSUME NEW S, NEW s \in Seq(S), NEW t \in Seq(S), NEW T
  PROVE  /\ None(t, T) => Fewer(s, s \o t, T)
         /\ None(s, T) /\ AtMostOne(t, T) => AtMostOne(s \o t, T)
<1>1. /\ Len(s) \in Nat /\ Len(t) \in Nat /\ DOMAIN s = 1..Len(s) /\ DOMAIN t = 1..Len(t)
      /\ DOMAIN (s \o t) = 1..Len(s) + Len(t)
      /\ \A n \in 1..Len(s) + Len(t) : (s \o t)[n] = IF n <= Len(s) THEN s[n] ELSE t[n - Len(s)]
  BY ConcatProperties
<1>2. \A n \in DOMAIN (s \o t) :
         \/ n \in DOMAIN s /\ (s \o t)[n] = s[n]
         \/ n \in Nat /\ n - Len(s) \in DOMAIN t /\ (s \o t)[n] = t[n - Len(s)]
  BY <1>1
<1>3. \A m, n \in Nat : m - Len(s) = n - Len(s) => m = n
  BY <1>1
<1>4. None(t, T) => Fewer(s, s \o t, T)
  BY <1>2 DEF Fewer, None, AtMostOne
<1>5. None(s, T) /\ AtMostOne(t, T) => AtMostOne(s \o t, T)
  BY <1>2, <1>3 DEF None, AtMostOne
<1> QED
  BY <1>4, <1>5

\* A queue with nothing more of the selection stays in flight.
LEMMA CalmerFlies ==
  ASSUME NEW c, NEW rev, InFlight(c, rev), Calmer(c, rev) PROVE InFlight(c, rev)'
BY Zenon DEF InFlight, Calmer, Fewer, Silent


\* While a flow serves, the others have ended or not begun.
LEMMA Alone ==
  ASSUME ReadInv, FlowsSound, NEW c \in Flows, flow[c].pc \notin {"none", "done"}
  PROVE  /\ \A d \in Flows \ {c} : flow[d].pc \in {"none", "done"} /\ link[d] # "open"
         /\ selection # NoSelection => flow[c].pc \in Serving
         /\ job.kind = "poll" => job.flow = c /\ flow[c].pc = "reading"
<1>1. ASSUME NEW d \in Flows \ {c} PROVE flow[d].pc \in {"none", "done"} /\ link[d] # "open"
  <2>1. d \in Flows /\ (c < d \/ d < c)
    BY DEF Flows
  <2>2. flow[d].pc \in {"none", "done"}
    BY <2>1 DEF FlowsSound
  <2> QED
    BY <2>1, <2>2 DEF FlowsSound
<1>2. \A d \in Flows : flow[d].pc \in Serving \cup {"reading"} => d = c
  BY <1>1 DEF Serving
<1>3. selection # NoSelection => flow[c].pc \in Serving
  BY <1>2 DEF FlowsSound
<1>4. job.kind = "poll" => job.flow = c /\ flow[c].pc = "reading"
  BY <1>2 DEF FlowsSound
<1> QED
  BY <1>1, <1>3, <1>4

\* The flow that serves keeps the others out.
LEMMA MovesAlone ==
  ASSUME ReadInv, FlightInv, NEW c \in Flows, Moves(c), socket' = socket
  PROVE  FlowsSound'
<1>1. \A d \in Flows \ {c} : flow[d].pc \in {"none", "done"} /\ link[d] # "open"
  BY Alone DEF FlightInv, Moves
<1>2. \A d \in Flows \ {c} : /\ flow'[d] = flow[d] /\ link'[d] = link[d]
                             /\ toServer'[d] = toServer[d] /\ toClient'[d] = toClient[d]
  BY DEF Moves
<1>3. /\ flow[c].pc \notin {"none", "done"} /\ flow'[c].pc # "none"
      /\ flow'[c].pc \in Serving => flow'[c].generation = cancel'
      /\ flow'[c].pc = "done" => link'[c] = "cut"
      /\ link'[c] \in {link[c], "cut"}
      /\ selection' # NoSelection => flow'[c].pc \in Serving
      /\ job'.kind = "poll" =>
            job'.flow = c /\ flow'[c].pc = "reading" /\ ack' = NoAck /\ selection' # NoSelection
  BY DEF Moves
<1>4. FlowsSound
  BY DEF FlightInv
<1>5. ASSUME NEW a \in Flows, NEW b \in Flows, a < b, flow'[b].pc # "none"
      PROVE  flow'[a].pc = "done"
  <2>1. a # b
    BY <1>5 DEF Flows
  <2>2. flow[b].pc # "none"
    BY <1>2, <1>3, <1>5
  <2>3. flow[a].pc = "done"
    BY <1>4, <1>5, <2>2 DEF FlowsSound
  <2> QED
    BY <1>2, <1>3, <2>3
<1>6. ASSUME NEW d \in Flows
      PROVE  /\ flow'[d].pc \in Serving => flow'[d].generation = cancel'
             /\ flow'[d].pc = "none" => toServer'[d] = <<>> /\ toClient'[d] = <<>>
             /\ flow'[d].pc = "none" <=> link'[d] = "none"
             /\ flow'[d].pc = "done" => link'[d] = "cut"
             /\ link'[d] = "open" => socket' = d
  <2>1. CASE d = c
    BY <1>3, <1>4, <2>1 DEF FlowsSound
  <2>2. CASE d # c
    <3>1. flow[d].pc \notin Serving
      BY <1>1, <2>2 DEF Serving
    <3> QED
      BY <1>2, <1>4, <2>2, <3>1 DEF FlowsSound
  <2> QED
    BY <2>1, <2>2
<1>7. /\ selection' # NoSelection => \E d \in Flows : flow'[d].pc \in Serving
      /\ job'.kind = "poll" => job'.flow \in Flows /\ flow'[job'.flow].pc = "reading"
                               /\ ack' = NoAck /\ selection' # NoSelection
  BY <1>3
<1> QED
  BY <1>5, <1>6, <1>7 DEF FlowsSound

\* It handles messages of selections that there are.
LEMMA MovesOn ==
  ASSUME ReadInv, FlightInv, NEW c \in Flows, Moves(c), UNCHANGED <<viewVars, requests>>
  PROVE  RevisionsSound'
<1>1. RevisionsSound /\ revision' = revision /\ window' = window /\ requests' = requests
  BY DEF FlightInv, viewVars
<1>2. \A d \in Flows \ {c} : toServer'[d] = toServer[d] /\ toClient'[d] = toClient[d]
  BY DEF Moves
<1>3. /\ selection'.rev <= revision /\ Kept(toServer[c], toServer'[c])
      /\ \A n \in DOMAIN toClient'[c] :
            toClient'[c][n].type = "chunk" => toClient'[c][n].rev <= revision
  BY DEF Moves
<1>4. ASSUME NEW d \in Flows
      PROVE  /\ \A n \in DOMAIN toServer'[d] :
                   toServer'[d][n].type \in {"subscribe", "ack"} => toServer'[d][n].rev <= revision
             /\ \A n \in DOMAIN toClient'[d] :
                   toClient'[d][n].type = "chunk" => toClient'[d][n].rev <= revision
  <2>1. CASE d = c
    BY <1>1, <1>3, <2>1 DEF RevisionsSound, Kept
  <2>2. CASE d # c
    BY <1>1, <1>2, <2>2 DEF RevisionsSound
  <2> QED
    BY <2>1, <2>2
<1>5. AtMostOne(requests, SnapshotOf(revision))' /\ None(requests, SnapshotOf(revision))' = None(requests, SnapshotOf(revision))
  BY <1>1 DEF RevisionsSound, AtMostOne, None, SnapshotOf
<1> QED
  BY <1>1, <1>3, <1>4, <1>5 DEF RevisionsSound

\* Only what it sends itself has to be looked at.
LEMMA MovesFly ==
  ASSUME ReadInv, FlightInv, NEW c \in Flows, Moves(c), UNCHANGED <<socket, viewVars, requests>>,
         \A rev \in Nat \ {0} : InFlight(c, rev)'
  PROVE  FlightInv'
<1>1. FlowsSound' /\ RevisionsSound'
  BY MovesAlone, MovesOn
<1>2. ASSUME NEW d \in Flows, NEW rev \in Nat \ {0}, d # c PROVE InFlight(d, rev)'
  <2>1. InFlight(d, rev)
    BY DEF FlightInv
  <2>2. /\ link'[d] = link[d] /\ toServer'[d] = toServer[d] /\ toClient'[d] = toClient[d]
        /\ link[d] # "open"
    BY <1>2, Alone DEF Moves, FlightInv
  <2>3. Calmer(d, rev)
    BY <2>2 DEF Calmer, Fewer
  <2> QED
    BY <2>1, <2>3, CalmerFlies
<1> QED
  BY <1>1, <1>2 DEF FlightInv


\* Messages that are no blocks.
LEMMA NoticesFly ==
  ASSUME ReadInv, FlightInv, NEW c \in Flows, NEW messages \in Seq(ClientMessage),
         \A n \in DOMAIN messages : messages[n].type # "chunk",
         toClient'[c] = toClient[c] \/ toClient'[c] = toClient[c] \o messages
  PROVE  /\ \A rev \in Nat : Fewer(toClient[c], toClient'[c], BlockOf(rev))
         /\ \A n \in DOMAIN toClient'[c] :
               toClient'[c][n].type = "chunk" => toClient'[c][n].rev <= revision
<1>1. PICK old \in Seq(ClientMessage) : old = toClient[c]
  BY DEF ReadInv, ServerTyped
<1>2. \A n \in DOMAIN old : old[n].type = "chunk" => old[n].rev <= revision
  BY <1>1 DEF FlightInv, RevisionsSound
<1>3. \A rev \in Nat : None(messages, BlockOf(rev))
  BY DEF None, BlockOf
<1>4. \A rev \in Nat : Fewer(old, old \o messages, BlockOf(rev))
  BY <1>3, QueuesJoined
<1>5. ASSUME NEW n \in DOMAIN (old \o messages), (old \o messages)[n].type = "chunk"
      PROVE  (old \o messages)[n].rev <= revision
  BY <1>2, <1>5, Joined
<1>6. \A rev \in Nat : Fewer(old, old, BlockOf(rev))
  BY DEF Fewer
<1> QED
  BY <1>1, <1>2, <1>4, <1>5, <1>6

\* A step of a flow that sends no block, and takes no message that lets it send.
LEMMA QuietFlies ==
  ASSUME ReadInv, FlightInv, NEW c \in Flows, UNCHANGED <<socket, viewVars, requests>>,
         flow[c].pc \notin {"none", "done"}, flow'[c].pc # "none",
         \A d \in Flows \ {c} : /\ flow'[d] = flow[d] /\ link'[d] = link[d]
                                /\ toServer'[d] = toServer[d] /\ toClient'[d] = toClient[d],
         flow'[c].pc \in Serving => flow'[c].generation = cancel',
         flow'[c].pc = "done" => link'[c] = "cut", link'[c] \in {link[c], "cut"},
         selection' # NoSelection => flow'[c].pc \in Serving,
         job'.kind = "poll" =>
            job'.flow = c /\ flow'[c].pc = "reading" /\ ack' = NoAck /\ selection' # NoSelection,
         selection' = NoSelection \/ (selection' = selection /\ (ack' = NoAck => ack = NoAck)),
         \/ toServer'[c] \in {toServer[c], <<>>}
         \/ toServer[c] # <<>> /\ toServer'[c] = Tail(toServer[c]),
         NEW messages \in Seq(ClientMessage), \A n \in DOMAIN messages : messages[n].type # "chunk",
         toClient'[c] = toClient[c] \/ toClient'[c] = toClient[c] \o messages
  PROVE  FlightInv'
<1>1. /\ \A rev \in Nat : Fewer(toClient[c], toClient'[c], BlockOf(rev))
      /\ \A n \in DOMAIN toClient'[c] :
            toClient'[c][n].type = "chunk" => toClient'[c][n].rev <= revision
  BY NoticesFly
<1>2. Kept(toServer[c], toServer'[c]) /\ \A T : Fewer(toServer[c], toServer'[c], T)
  <2>1. PICK s, t : s = toServer[c] /\ t = toServer'[c]
    OBVIOUS
  <2>2. s \in Seq(ServerMessage) /\ (t = s \/ (s # <<>> /\ t = Tail(s)) \/ t = <<>>)
    BY <2>1 DEF ReadInv, ServerTyped
  <2>3. Kept(s, t) /\ \A T : Fewer(s, t, T)
    BY <2>2, QueueShorter
  <2> QED
    BY <2>1, <2>3
<1>3. selection'.rev <= revision
  BY DEF FlightInv, RevisionsSound, NoSelection, ReadInv, StoreTyped
<1>4. Moves(c)
  BY <1>1, <1>2, <1>3 DEF Moves
<1>5. ASSUME NEW rev \in Nat \ {0} PROVE InFlight(c, rev)'
  <2>1. Fewer(toClient[c], toClient'[c], BlockOf(rev))
    BY <1>1
  <2>2. Fewer(toServer[c], toServer'[c], AckOf(rev)) /\ Fewer(toServer[c], toServer'[c], SubscribeOf(rev))
    BY <1>2
  <2>3. selection'.rev = rev => selection.rev = rev /\ (ack' = NoAck => ack = NoAck)
    BY DEF NoSelection
  <2>4. requests' = requests /\ revision' = revision
    BY DEF viewVars
  <2>5. ~None(requests', SnapshotOf(rev)) /\ rev = revision' =>
           ~None(requests, SnapshotOf(rev)) /\ rev = revision
    BY <2>4
  <2>6. Calmer(c, rev)
    BY <2>1, <2>2, <2>3, <2>5 DEF Calmer
  <2>7. InFlight(c, rev)
    BY DEF FlightInv
  <2> QED
    BY <2>6, <2>7, CalmerFlies
<1> QED
  BY <1>4, <1>5, MovesFly

\* The turns of a flow that neither send nor read.
LEMMA TurnFlies ==
  ASSUME ReadInv, FlightInv, NEW c \in Flows, UNCHANGED <<socket, viewVars, requests>>,
         \/ Begin(c) \/ Top(c) \/ Interrupted(c) \/ PollBusy(c) \/ PollNothing(c)
         \/ Leave(c) \/ Tidy(c) \/ Close(c)
  PROVE  FlightInv'
<1>1. /\ flow[c].pc \in {"starting", "top", "select", "poll", "leaving", "tidying", "closing"}
      /\ UNCHANGED <<job, toClient>>
      /\ selection' = NoSelection \/ (selection' = selection /\ ack' = ack)
      /\ link' = link \/ link' = [link EXCEPT ![c] = "cut"]
      /\ toServer' = toServer \/ toServer' = [toServer EXCEPT ![c] = <<>>]
  BY DEF Begin, Top, Interrupted, PollBusy, PollNothing, Leave, Tidy, Close, dataVars, Polls
<1>2. /\ flow \in [Flows -> [pc : Where, generation : Nat]]
      /\ toServer \in [Flows -> Seq(ServerMessage)] /\ link \in [Flows -> {"none", "open", "cut"}]
      /\ cancel \in Nat
  BY DEF ReadInv, ServerTyped
<1>3. flow[c].pc \notin {"none", "done"} /\ flow[c].pc # "reading"
  BY <1>1
<1>4. FlowsSound
  BY DEF FlightInv
<1>5. job'.kind # "poll" /\ (selection # NoSelection => flow[c].pc \in Serving)
  BY <1>1, <1>3, <1>4, Alone
<1>6. flow[c].pc \in Serving => flow[c].generation = cancel
  BY <1>4 DEF FlowsSound
<1>7. /\ \A d \in Flows \ {c} : flow'[d] = flow[d]
      /\ flow'[c].pc # "none"
      /\ flow'[c].pc \in Serving => flow'[c].generation = cancel'
      /\ flow'[c].pc = "done" => link'[c] = "cut"
      /\ selection' # NoSelection => flow'[c].pc \in Serving
  <2>1. CASE Begin(c)
    <3>1. flow' = [flow EXCEPT ![c] = [pc |-> "top", generation |-> cancel']] /\ selection' = NoSelection
      BY <2>1 DEF Begin
    <3> QED
      BY <1>2, <3>1
  <2>2. CASE Top(c) \/ Interrupted(c) \/ PollBusy(c) \/ PollNothing(c)
    <3>1. PICK pc \in {"select", "leaving", "top"} : Goto(c, pc)
      BY <2>2 DEF Top, Interrupted, PollBusy, PollNothing
    <3>2. pc \in Where /\ pc \in Serving /\ flow[c].pc \in Serving /\ cancel' = cancel
      BY <2>2 DEF Where, Serving, Top, Interrupted, PollBusy, PollNothing, Polls
    <3>3. flow'[c].pc = pc /\ flow'[c].generation = flow[c].generation
          /\ \A d \in Flows : d # c => flow'[d] = flow[d]
      BY <3>1, <3>2, GotoIs DEF ReadInv
    <3> QED
      BY <1>6, <3>1, <3>2, <3>3
  <2>3. CASE Leave(c)
    <3>1. flow[c].pc = "leaving" /\ cancel' = cancel
          /\ Goto(c, IF cancel = flow[c].generation THEN "tidying" ELSE "closing")
      BY <2>3 DEF Leave
    <3>2. cancel = flow[c].generation /\ "tidying" \in Serving /\ "tidying" \in Where
      BY <1>6, <3>1 DEF Serving, Where
    <3>3. Goto(c, "tidying")
      BY <3>1, <3>2
    <3>4. flow'[c].pc = "tidying" /\ flow'[c].generation = flow[c].generation
          /\ \A d \in Flows : d # c => flow'[d] = flow[d]
      BY <3>2, <3>3, GotoIs DEF ReadInv
    <3> QED
      BY <3>1, <3>2, <3>4
  <2>4. CASE Tidy(c)
    <3>1. Goto(c, "closing") /\ "closing" \in Where /\ "closing" \notin Serving /\ selection' = NoSelection
      BY <2>4 DEF Tidy, Where, Serving
    <3>2. flow'[c].pc = "closing" /\ \A d \in Flows : d # c => flow'[d] = flow[d]
      BY <3>1, GotoIs DEF ReadInv
    <3> QED
      BY <3>1, <3>2
  <2>5. CASE Close(c)
    <3>1. /\ Goto(c, "done") /\ "done" \in Where /\ "done" \notin Serving /\ selection' = selection
          /\ link' = [link EXCEPT ![c] = "cut"] /\ flow[c].pc = "closing" /\ "closing" \notin Serving
      BY <2>5 DEF Close, Where, Serving, dataVars
    <3>2. flow'[c].pc = "done" /\ \A d \in Flows : d # c => flow'[d] = flow[d]
      BY <3>1, GotoIs DEF ReadInv
    <3> QED
      BY <1>2, <1>5, <3>1, <3>2
  <2> QED
    BY <2>1, <2>2, <2>3, <2>4, <2>5
<1>8. /\ \A d \in Flows \ {c} : /\ link'[d] = link[d] /\ toServer'[d] = toServer[d]
                                /\ toClient'[d] = toClient[d]
      /\ link'[c] \in {link[c], "cut"}
      /\ toServer'[c] = toServer[c] \/ toServer'[c] = <<>>
      /\ toClient'[c] = toClient[c]
  BY <1>1, <1>2
<1>9. PICK messages \in Seq(ClientMessage) : \A n \in DOMAIN messages : messages[n].type # "chunk"
  <2>1. <<>> \in Seq(ClientMessage) /\ DOMAIN <<>> = {}
    OBVIOUS
  <2> QED
    BY <2>1
<1>10. selection' = NoSelection \/ (selection' = selection /\ (ack' = NoAck => ack = NoAck))
  BY <1>1
<1> QED
  BY <1>3, <1>5, <1>7, <1>8, <1>9, <1>10, QuietFlies

\* A step that sends messages that are no blocks.
LEMMA SendFlies ==
  ASSUME ReadInv, FlightInv, NEW c \in Flows, UNCHANGED <<socket, viewVars, requests, cancel, link>>,
         flow[c].pc \in Serving, NEW messages \in Seq(ClientMessage),
         \A n \in DOMAIN messages : messages[n].type # "chunk",
         NEW pc \in {"top", "poll", "leaving"}, Post(c, messages, pc), job'.kind # "poll",
         selection' = NoSelection \/ (selection' = selection /\ (ack' = NoAck => ack = NoAck)),
         \A d \in Flows \ {c} : toServer'[d] = toServer[d],
         \/ toServer'[c] = toServer[c]
         \/ toServer[c] # <<>> /\ toServer'[c] = Tail(toServer[c])
  PROVE  FlightInv'
<1>1. pc \in Where /\ pc \in Serving /\ "leaving" \in Serving
  BY DEF Where, Serving
<1>2. /\ \A d \in Flows : d # c => toClient'[d] = toClient[d] /\ flow'[d] = flow[d]
      /\ toClient'[c] = toClient[c] \/ toClient'[c] = toClient[c] \o messages
      /\ flow'[c].pc \in Serving /\ flow'[c].generation = flow[c].generation
  BY ZenonT(60), <1>1, PostIs DEF ReadInv
<1>3. flow[c].generation = cancel
  BY DEF FlightInv, FlowsSound
<1>4. "none" \notin Serving /\ "done" \notin Serving
  BY DEF Serving
<1> QED
  BY <1>2, <1>3, <1>4, QuietFlies


\* Messages of the client: subscribing to what was quiet, or an acknowledgement
\* that was the only message of its selection.
LEMMA ReceiveFlies ==
  ASSUME ReadInv, FlightInv, NEW c \in Flows, UNCHANGED <<socket, viewVars, requests>>, Receive(c)
  PROVE  FlightInv'
<1>1. PICK message : message = Head(toServer[c])
  OBVIOUS
<1>2. /\ toServer[c] # <<>> /\ toServer' = [toServer EXCEPT ![c] = Tail(@)]
      /\ Subscribe(c, message) \/ Unsubscribe(c, message) \/ Acknowledge(c, message)
      /\ UNCHANGED <<rootVars, cancel, job, link>> /\ job = NoJob /\ flow[c].pc = "select"
  BY <1>1 DEF Receive
<1>3. /\ toServer \in [Flows -> Seq(ServerMessage)] /\ toClient \in [Flows -> Seq(ClientMessage)]
      /\ selection \in [rev : Nat, generation : Nat, offset : Lengths]
  BY DEF ReadInv, ServerTyped
<1>4. /\ toServer'[c] = Tail(toServer[c]) /\ \A d \in Flows \ {c} : toServer'[d] = toServer[d]
      /\ toServer[c] \in Seq(ServerMessage)
  BY <1>2, <1>3
<1>5. message \in ServerMessage /\ 1 \in DOMAIN toServer[c] /\ message = toServer[c][1]
  BY <1>1, <1>2, <1>4
<1>6. /\ job'.kind # "poll" /\ flow[c].pc \in Serving /\ flow[c].pc \notin {"none", "done"}
      /\ flow[c].generation = cancel /\ {"poll", "leaving"} \subseteq Serving \cap Where
  BY <1>2 DEF NoJob, Serving, Where, FlightInv, FlowsSound
<1>7. /\ \A d \in Flows \ {c} : link'[d] = link[d]
      /\ link'[c] = link[c]
      /\ revision' = revision /\ requests' = requests
  BY <1>2 DEF viewVars
<1>8. Kept(toServer[c], toServer'[c]) /\ \A T : Fewer(toServer[c], toServer'[c], T)
  <2>1. PICK s, t : s = toServer[c] /\ t = toServer'[c]
    OBVIOUS
  <2>2. s \in Seq(ServerMessage) /\ s # <<>> /\ t = Tail(s)
    BY <1>2, <1>4, <2>1
  <2>3. Kept(s, t) /\ \A T : Fewer(s, t, T)
    BY <2>2, QueueShorter
  <2> QED
    BY <2>1, <2>3
<1>9. \A T : message \in T => /\ ~None(toServer[c], T)
                              /\ AtMostOne(toServer[c], T) => None(toServer'[c], T)
  <2>1. PICK s : s = toServer[c]
    OBVIOUS
  <2>2. s \in Seq(ServerMessage) /\ s # <<>> /\ message = Head(s) /\ toServer'[c] = Tail(s)
    BY <1>1, <1>2, <1>4, <2>1
  <2>3. \A T : message \in T => ~None(s, T) /\ (AtMostOne(s, T) => None(Tail(s), T))
    BY <2>2, HeadCounts
  <2> QED
    BY <2>1, <2>2, <2>3
<1>10. CASE Subscribe(c, message)
  <2>1. /\ message.type = "subscribe" /\ selection'.rev = message.rev
        /\ ack' = NoAck /\ Post(c, <<[type |-> "subscribed", rev |-> message.rev]>>, "poll")
    BY <1>10 DEF Subscribe
  <2>2. message \in SubscribeMessage /\ message.rev \in Nat
    BY <1>5, <2>1, ChunksAre DEF SubscribeMessage
  <2>3. PICK messages \in Seq(ClientMessage) :
           /\ messages = <<[type |-> "subscribed", rev |-> message.rev]>>
           /\ \A n \in DOMAIN messages : messages[n].type # "chunk"
    <3>1. PICK m \in ClientMessage : m = [type |-> "subscribed", rev |-> message.rev] /\ m.type # "chunk"
      <4>1. /\ [type |-> "subscribed", rev |-> message.rev] \in ClientMessage
            /\ [type |-> "subscribed", rev |-> message.rev].type # "chunk"
        BY <2>2, MessageTypes DEF Notices
      <4> QED
        BY <4>1
    <3>2. <<m>> \in Seq(ClientMessage) /\ \A n \in DOMAIN <<m>> : <<m>>[n].type # "chunk"
      BY <3>1
    <3> QED
      BY <3>1, <3>2
  <2>4. Post(c, messages, "poll")
    BY <2>1, <2>3
  <2>5. /\ \A d \in Flows : d # c => toClient'[d] = toClient[d] /\ flow'[d] = flow[d]
        /\ toClient'[c] = toClient[c] \/ toClient'[c] = toClient[c] \o messages
        /\ flow'[c].pc \in Serving /\ flow'[c].generation = flow[c].generation
    BY ZenonT(60), <1>6, <2>4, PostIs DEF ReadInv
  <2>6. /\ \A rev \in Nat : Fewer(toClient[c], toClient'[c], BlockOf(rev))
        /\ \A n \in DOMAIN toClient'[c] :
              toClient'[c][n].type = "chunk" => toClient'[c][n].rev <= revision
    BY <2>3, <2>5, NoticesFly
  <2>7. selection'.rev <= revision
    BY <1>5, <2>1 DEF FlightInv, RevisionsSound
  <2>8. Moves(c)
    <3>1. flow'[c].pc # "none" /\ flow'[c].pc # "done" /\ cancel' = cancel
      BY <1>2, <2>5 DEF Serving
    <3> QED
      BY <1>4, <1>6, <1>7, <1>8, <2>5, <2>6, <2>7, <3>1 DEF Moves
  <2>9. ASSUME NEW rev \in Nat \ {0} PROVE InFlight(c, rev)'
    <3>1. InFlight(c, rev)
      BY DEF FlightInv
    <3>2. CASE rev # message.rev
      <4>1. Calmer(c, rev)
        BY <1>7, <1>8, <2>1, <2>6, <3>2 DEF Calmer
      <4> QED
        BY <3>1, <4>1, CalmerFlies
    <3>3. CASE rev = message.rev
      <4>1. message \in SubscribeOf(rev)
        BY <1>5, <2>1, <3>3 DEF SubscribeOf
      <4>2. /\ ~None(toServer[c], SubscribeOf(rev))
            /\ AtMostOne(toServer[c], SubscribeOf(rev)) => None(toServer'[c], SubscribeOf(rev))
        BY <1>9, <4>1
      <4>3. /\ Fewer(toClient[c], toClient'[c], BlockOf(rev))
            /\ Fewer(toServer[c], toServer'[c], AckOf(rev))
            /\ Fewer(toServer[c], toServer'[c], SubscribeOf(rev))
        BY <1>8, <2>6
      <4> QED
        BY <1>7, <3>1, <4>2, <4>3, Zenon DEF InFlight, Silent, Fewer
    <3> QED
      BY <3>2, <3>3
  <2> QED
    BY <2>8, <2>9, MovesFly
<1>11. CASE Unsubscribe(c, message)
  <2>1. selection' = NoSelection /\ Goto(c, "poll") /\ toClient' = toClient
    BY <1>11 DEF Unsubscribe
  <2>2. flow'[c].pc = "poll" /\ flow'[c].generation = flow[c].generation
        /\ \A d \in Flows : d # c => flow'[d] = flow[d]
    BY <1>6, <2>1, GotoIs DEF ReadInv
  <2>3. PICK messages \in Seq(ClientMessage) : \A n \in DOMAIN messages : messages[n].type # "chunk"
    <3>1. <<>> \in Seq(ClientMessage) /\ DOMAIN <<>> = {}
      OBVIOUS
    <3> QED
      BY <3>1
  <2>4. \A d \in Flows \ {c} : /\ flow'[d] = flow[d] /\ link'[d] = link[d]
                               /\ toServer'[d] = toServer[d] /\ toClient'[d] = toClient[d]
    BY <1>4, <1>7, <2>1, <2>2
  <2>5. flow'[c].generation = cancel' /\ flow'[c].pc \in Serving
    BY <1>2, <1>6, <2>2
  <2> QED
    BY <1>2, <1>4, <1>6, <1>7, <2>1, <2>2, <2>3, <2>4, <2>5, QuietFlies
<1>12. CASE Acknowledge(c, message) /\ ~AckMatches(message)
  <2>1. Post(c, <<[type |-> "error"]>>, "poll") /\ UNCHANGED <<selection, ack>>
    BY <1>12 DEF Acknowledge
  <2>2. PICK messages \in Seq(ClientMessage) :
           messages = <<[type |-> "error"]>> /\ \A n \in DOMAIN messages : messages[n].type # "chunk"
    <3>1. PICK m \in ClientMessage : m = [type |-> "error"] /\ m.type # "chunk"
      BY MessageTypes, <1>3
    <3>2. <<m>> \in Seq(ClientMessage) /\ \A n \in DOMAIN <<m>> : <<m>>[n].type # "chunk"
      BY <3>1
    <3> QED
      BY <3>1, <3>2
  <2>3. Post(c, messages, "poll") /\ "poll" \in {"top", "poll", "leaving"}
    BY <2>1, <2>2
  <2>4. selection' = selection /\ ack' = ack /\ cancel' = cancel /\ link' = link
    BY <1>2, <2>1
  <2> QED
    BY <1>2, <1>4, <1>6, <2>2, <2>3, <2>4, SendFlies
<1>13. CASE Acknowledge(c, message) /\ AckMatches(message)
  <2>1. /\ message.type = "ack" /\ selection' = [selection EXCEPT !.offset = message.offset]
        /\ ack' = NoAck /\ Goto(c, "poll") /\ toClient' = toClient /\ message.rev = selection.rev
    BY <1>13 DEF Acknowledge, AckMatches
  <2>2. selection'.rev = selection.rev
    BY <1>3, <2>1
  <2>3. flow'[c].pc = "poll" /\ flow'[c].generation = flow[c].generation
        /\ \A d \in Flows : d # c => flow'[d] = flow[d]
    BY <1>6, <2>1, GotoIs DEF ReadInv
  <2>4. /\ \A rev \in Nat : Fewer(toClient[c], toClient'[c], BlockOf(rev))
        /\ \A n \in DOMAIN toClient'[c] :
              toClient'[c][n].type = "chunk" => toClient'[c][n].rev <= revision
    BY <2>1 DEF Fewer, FlightInv, RevisionsSound
  <2>5. selection'.rev <= revision
    BY <2>2 DEF FlightInv, RevisionsSound
  <2>6. Moves(c)
    <3>1. /\ flow'[c].pc # "none" /\ flow'[c].pc # "done" /\ cancel' = cancel
          /\ flow'[c].pc \in Serving
      BY <1>2, <1>6, <2>3
    <3>2. \A d \in Flows \ {c} : /\ flow'[d] = flow[d] /\ link'[d] = link[d]
                                 /\ toServer'[d] = toServer[d] /\ toClient'[d] = toClient[d]
      BY <1>4, <1>7, <2>1, <2>3
    <3> QED
      BY <1>6, <1>7, <1>8, <2>3, <2>4, <2>5, <3>1, <3>2 DEF Moves
  <2>7. ASSUME NEW rev \in Nat \ {0} PROVE InFlight(c, rev)'
    <3>1. InFlight(c, rev)
      BY DEF FlightInv
    <3>2. CASE rev # message.rev
      <4>1. Calmer(c, rev)
        BY <1>7, <1>8, <2>1, <2>2, <2>4, <3>2 DEF Calmer
      <4> QED
        BY <3>1, <4>1, CalmerFlies
    <3>3. CASE rev = message.rev
      <4>1. message \in AckOf(rev) /\ selection.rev = rev
        BY <1>5, <2>1, <3>3 DEF AckOf
      <4>2. /\ ~None(toServer[c], AckOf(rev))
            /\ AtMostOne(toServer[c], AckOf(rev)) => None(toServer'[c], AckOf(rev))
        BY <1>9, <4>1
      <4>3. /\ Fewer(toClient[c], toClient'[c], BlockOf(rev))
            /\ Fewer(toServer[c], toServer'[c], AckOf(rev))
            /\ Fewer(toServer[c], toServer'[c], SubscribeOf(rev))
        BY <1>8, <2>4
      <4> QED
        BY <1>7, <3>1, <4>1, <4>2, <4>3, Zenon DEF InFlight, Silent, Fewer
    <3> QED
      BY <3>2, <3>3
  <2> QED
    BY <2>6, <2>7, MovesFly
<1> QED
  BY <1>2, <1>10, <1>11, <1>12, <1>13


\* The flow asks for a new start and ends.
LEMMA TimeoutFlies ==
  ASSUME ReadInv, FlightInv, NEW c \in Flows, UNCHANGED <<socket, viewVars, requests>>,
         PollTimeout(c)
  PROVE  FlightInv'
<1>1. /\ Post(c, <<[type |-> "resync-required", rev |-> selection.rev]>>, "leaving")
      /\ UNCHANGED <<rootVars, dataVars, cancel, job, toServer, link>> /\ job = NoJob
      /\ flow[c].pc \in {"select", "poll"}
  BY DEF PollTimeout, Polls
<1>2. PICK messages \in Seq(ClientMessage) :
         /\ messages = <<[type |-> "resync-required", rev |-> selection.rev]>>
         /\ \A n \in DOMAIN messages : messages[n].type # "chunk"
  <2>1. PICK m \in ClientMessage :
           m = [type |-> "resync-required", rev |-> selection.rev] /\ m.type # "chunk"
    <3>1. selection.rev \in Nat
      BY DEF ReadInv, ServerTyped
    <3>2. /\ [type |-> "resync-required", rev |-> selection.rev] \in ClientMessage
          /\ [type |-> "resync-required", rev |-> selection.rev].type # "chunk"
      BY <3>1, MessageTypes DEF Notices
    <3> QED
      BY <3>2
  <2>2. <<m>> \in Seq(ClientMessage) /\ \A n \in DOMAIN <<m>> : <<m>>[n].type # "chunk"
    BY <2>1
  <2> QED
    BY <2>1, <2>2
<1>3. Post(c, messages, "leaving") /\ "leaving" \in {"top", "poll", "leaving"}
  BY <1>1, <1>2
<1>4. /\ selection' = selection /\ ack' = ack /\ toServer' = toServer /\ job'.kind # "poll"
      /\ cancel' = cancel /\ link' = link /\ flow[c].pc \in Serving
  BY <1>1 DEF dataVars, NoJob, Serving
<1> QED
  BY <1>2, <1>3, <1>4, SendFlies

\* It tells that the file is missing, or of another version.
LEMMA AnnounceFlies ==
  ASSUME ReadInv, FlightInv, NEW c \in Flows, UNCHANGED <<socket, viewVars, requests>>,
         UNCHANGED <<cancel, toServer, link>>, flow[c].pc \in Serving, job'.kind # "poll",
         NEW renamed \in BOOLEAN, Unavailable(c, Announced(renamed)) \/ Reset(c, Announced(renamed))
  PROVE  FlightInv'
<1>1. PICK earlier \in Seq(ClientMessage) :
         /\ earlier = Announced(renamed) /\ \A n \in DOMAIN earlier : earlier[n].type # "chunk"
  BY AnnouncedIs DEF ReadInv
<1>2. Unavailable(c, earlier) \/ Reset(c, earlier)
  BY <1>1
<1>3. PICK messages \in Seq(ClientMessage) :
         (\A n \in DOMAIN messages : messages[n].type # "chunk") /\ Post(c, messages, "top")
  BY <1>1, <1>2, AnnounceIs DEF ReadInv
<1>4. selection' = NoSelection \/ (selection' = selection /\ (ack' = NoAck => ack = NoAck))
  BY <1>2 DEF Unavailable, Reset
<1>5. toServer' = toServer /\ cancel' = cancel /\ link' = link /\ "top" \in {"top", "poll", "leaving"}
  OBVIOUS
<1> QED
  BY <1>3, <1>4, <1>5, SendFlies

\* A read begins while nothing is to be acknowledged.
LEMMA OpenFlies ==
  ASSUME ReadInv, FlightInv, NEW c \in Flows, UNCHANGED <<socket, viewVars, requests>>,
         PollOpen(c)
  PROVE  FlightInv'
<1>1. /\ flow[c].pc \in {"select", "poll"} /\ job = NoJob /\ selection # NoSelection /\ ack = NoAck
      /\ UNCHANGED <<cancel, toServer, link>>
  BY DEF PollOpen, Polls, MayRead
<1>2. flow[c].pc \in Serving /\ flow[c].generation = cancel /\ "reading" \in Where \cap Serving
  BY <1>1 DEF Serving, Where, FlightInv, FlowsSound
<1>3. PICK renamed \in BOOLEAN : renamed = Relocates
  BY DEF Relocates
<1>4. CASE Unavailable(c, Announced(Relocates)) /\ job' = job
  <2>1. Unavailable(c, Announced(renamed)) \/ Reset(c, Announced(renamed))
    BY <1>3, <1>4
  <2>2. job'.kind # "poll"
    BY <1>1, <1>4 DEF NoJob
  <2> QED
    BY <1>1, <1>2, <2>1, <2>2, AnnounceFlies
<1>5. CASE /\ Open("poll", c, Relocates) /\ Goto(c, "reading")
           /\ UNCHANGED <<dataVars, toClient>>
  <2>1. job'.kind = "poll" /\ job'.flow = c
    BY <1>5 DEF Open, NoJob
  <2>2. /\ flow'[c].pc = "reading" /\ flow'[c].generation = flow[c].generation
        /\ \A d \in Flows : d # c => flow'[d] = flow[d]
    BY <1>2, <1>5, GotoIs DEF ReadInv
  <2>3. /\ selection' = selection /\ ack' = ack /\ toClient' = toClient /\ toServer' = toServer
        /\ link' = link /\ cancel' = cancel
    BY <1>1, <1>5 DEF dataVars
  <2>4. PICK messages \in Seq(ClientMessage) : \A n \in DOMAIN messages : messages[n].type # "chunk"
    <3>1. <<>> \in Seq(ClientMessage) /\ DOMAIN <<>> = {}
      OBVIOUS
    <3> QED
      BY <3>1
  <2> QED
    BY <1>1, <1>2, <2>1, <2>2, <2>3, <2>4, QuietFlies
<1> QED
  BY <1>4, <1>5 DEF PollOpen

\* It goes on, or ends with a reset.
LEMMA GoingFlies ==
  ASSUME ReadInv, FlightInv, NEW c \in Flows, UNCHANGED <<socket, viewVars, requests>>,
         PollCompare(c) \/ PollRecord(c)
  PROVE  FlightInv'
<1>1. /\ job.kind = "poll" /\ job.flow = c /\ UNCHANGED <<cancel, toServer, link>>
      /\ job \in JobFields
  BY DEF PollCompare, PollRecord, Compare, ReadInv, ServerTyped, Jobs
<1>2. flow[c].pc = "reading" /\ ack = NoAck /\ selection # NoSelection
  BY <1>1 DEF FlightInv, FlowsSound
<1>3. flow[c].pc \in Serving /\ flow[c].generation = cancel
  BY <1>2 DEF Serving, FlightInv, FlowsSound
<1>4. CASE Reset(c, Announced(job.renamed)) /\ job' = NoJob
  <2>1. PICK renamed \in BOOLEAN : renamed = job.renamed
    BY <1>1 DEF JobFields
  <2>2. Unavailable(c, Announced(renamed)) \/ Reset(c, Announced(renamed))
    BY <1>4, <2>1
  <2>3. job'.kind # "poll"
    BY <1>4 DEF NoJob
  <2> QED
    BY <1>1, <1>3, <2>2, <2>3, AnnounceFlies
<1>5. CASE UNCHANGED <<dataVars, flow, toClient>> /\ (PollCompare(c) \/ job'.step = "recorded")
  <2>1. job'.kind = "poll" /\ job'.flow = c
    <3>1. CASE PollCompare(c)
      <4>1. PICK changed : job' = [job EXCEPT !.step = "compared", !.changed = changed]
        BY <3>1 DEF PollCompare, Compare
      <4> QED
        BY <1>1, <4>1 DEF JobFields
    <3>2. CASE PollRecord(c) /\ job'.step = "recorded"
      <4>1. PICK start, end :
               job' = [job EXCEPT !.step = "recorded", !.start = start, !.end = end]
        <5>1. job' # NoJob
          BY <3>2 DEF NoJob
        <5> QED
          BY <3>2, <5>1 DEF PollRecord, Lock
      <4> QED
        BY <1>1, <4>1 DEF JobFields
    <3> QED
      BY <1>5, <3>1, <3>2
  <2>2. /\ selection' = selection /\ ack' = ack /\ toClient' = toClient /\ toServer' = toServer
        /\ link' = link /\ cancel' = cancel /\ flow' = flow
    BY <1>1, <1>5 DEF dataVars
  <2>3. PICK messages \in Seq(ClientMessage) : \A n \in DOMAIN messages : messages[n].type # "chunk"
    <3>1. <<>> \in Seq(ClientMessage) /\ DOMAIN <<>> = {}
      OBVIOUS
    <3> QED
      BY <3>1
  <2> QED
    BY <1>2, <1>3, <2>1, <2>2, <2>3, QuietFlies
<1>6. /\ PollRecord(c) => \/ Reset(c, Announced(job.renamed)) /\ job' = NoJob
                          \/ UNCHANGED <<dataVars, flow, toClient>> /\ job'.step = "recorded"
      /\ PollCompare(c) => UNCHANGED <<dataVars, flow, toClient>>
  <2>1. \A start, end : Lock(start, end) => job'.step = "recorded"
    BY <1>1 DEF Lock, JobFields
  <2> QED
    BY <2>1 DEF PollRecord, PollCompare
<1> QED
  BY <1>4, <1>5, <1>6

\* What a read of the flow sends is a block of the selection.
LEMMA BlockIs ==
  ASSUME ReadInv, job.kind = "poll", Outcome = "ok", NEW block,
         block = [type |-> "chunk", rev |-> selection.rev, generation |-> seen.generation,
                  start |-> job.start, bytes |-> Segment(file.bytes, job.start, job.end)]
  PROVE  block \in ClientMessage /\ block.type = "chunk" /\ block.rev = selection.rev
<1>1. /\ job.start \in Nat /\ job.end \in 0..MaxLen /\ job.size \in Nat /\ job.start <= job.end
      /\ job.end <= job.size /\ job.start \in Lengths /\ selection.rev \in Nat
  <2>1. job \in Jobs /\ selection.rev \in Nat
    BY DEF ReadInv, ServerTyped
  <2> QED
    BY <2>1 DEF Jobs, JobFields
<1>2. /\ job.size <= Len(file.bytes) /\ file.bytes \in Bytes /\ Len(file.bytes) \in Nat
      /\ seen.generation \in Nat
  <2>1. file.bytes \in Bytes /\ Len(file.bytes) \in Nat /\ seen.generation \in Nat
    BY DiskNumbers DEF ReadInv
  <2> QED
    BY SMTT(30), <1>1, <2>1 DEF Outcome
<1>3. /\ Segment(file.bytes, job.start, job.end) \in Bytes
      /\ Len(Segment(file.bytes, job.start, job.end)) = job.end - job.start
  <2>1. job.end \in 0..Len(file.bytes) /\ job.start \in 0..job.end
    BY SMTT(30), <1>1, <1>2
  <2> QED
    BY <1>2, <2>1, SegmentIs
<1>4. block \in [type : {"chunk"}, rev : Nat, generation : Nat, start : Lengths, bytes : Bytes]
  BY <1>1, <1>2, <1>3
<1>5. End(block) = job.end
  BY SMTT(30), <1>1, <1>3 DEF End
<1> QED
  BY <1>1, <1>4, <1>5 DEF ChunkMessage, ClientMessage

\* A block is sent when nothing of its selection is on its way.
LEMMA ReadFlies ==
  ASSUME ReadInv, FlightInv, NEW c \in Flows, UNCHANGED <<socket, viewVars, requests>>,
         PollRead(c)
  PROVE  FlightInv'
<1>1. /\ job.kind = "poll" /\ job.flow = c /\ job' = NoJob
      /\ UNCHANGED <<rootVars, cancel, toServer, link>>
  BY DEF PollRead
<1>2. /\ flow[c].pc = "reading" /\ ack = NoAck /\ selection # NoSelection
      /\ selection.rev <= revision
  BY <1>1 DEF FlightInv, FlowsSound, RevisionsSound
<1>3. flow[c].pc \in Serving /\ flow[c].generation = cancel /\ "top" \in Where \cap Serving
  BY <1>2 DEF Serving, Where, FlightInv, FlowsSound
<1>4. /\ job \in Jobs /\ selection.rev \in Nat /\ job'.kind # "poll"
      /\ toServer \in [Flows -> Seq(ServerMessage)] /\ toClient \in [Flows -> Seq(ClientMessage)]
  BY <1>1 DEF ReadInv, ServerTyped, NoJob
<1>5. PICK renamed \in BOOLEAN : renamed = job.renamed
  BY <1>4 DEF Jobs, JobFields
<1>6. CASE Unavailable(c, Announced(job.renamed)) \/ Reset(c, Announced(job.renamed))
  <2>1. Unavailable(c, Announced(renamed)) \/ Reset(c, Announced(renamed))
    BY <1>5, <1>6
  <2> QED
    BY <1>1, <1>3, <1>4, <2>1, AnnounceFlies
<1>7. CASE ~(Unavailable(c, Announced(job.renamed)) \/ Reset(c, Announced(job.renamed)))
  <2>1. PICK resumed, block, blocks :
           /\ selection' = selection
           /\ resumed = IF unavailable # 0
                        THEN <<[type |-> "subscribed", rev |-> selection.rev]>> ELSE <<>>
           /\ block = [type |-> "chunk", rev |-> selection.rev, generation |-> seen.generation,
                       start |-> job.start, bytes |-> Segment(file.bytes, job.start, job.end)]
           /\ blocks = IF job.end = job.start THEN <<>> ELSE <<block>>
           /\ Post(c, Announced(job.renamed) \o resumed \o blocks, "top")
           /\ ack' = IF job.end = job.start THEN ack ELSE job.end
           /\ Outcome = "ok"
    BY <1>7 DEF PollRead
  <2>2. block \in ClientMessage /\ block.type = "chunk" /\ block.rev = selection.rev
    BY <1>1, <2>1, BlockIs
  <2>3. PICK announced \in Seq(ClientMessage) :
           announced = Announced(job.renamed) /\ \A n \in DOMAIN announced : announced[n].type # "chunk"
    BY <1>5, AnnouncedIs DEF ReadInv
  <2>4. resumed \in Seq(ClientMessage) /\ \A n \in DOMAIN resumed : resumed[n].type # "chunk"
    <3>1. PICK m \in ClientMessage : m = [type |-> "subscribed", rev |-> selection.rev] /\ m.type # "chunk"
      <4>1. /\ [type |-> "subscribed", rev |-> selection.rev] \in ClientMessage
            /\ [type |-> "subscribed", rev |-> selection.rev].type # "chunk"
        BY <1>4, MessageTypes DEF Notices
      <4> QED
        BY <4>1
    <3>2. <<m>> \in Seq(ClientMessage) /\ \A n \in DOMAIN <<m>> : <<m>>[n].type # "chunk"
      BY <3>1
    <3>3. <<>> \in Seq(ClientMessage) /\ DOMAIN <<>> = {}
      OBVIOUS
    <3>4. resumed = <<m>> \/ resumed = <<>>
      BY <2>1, <3>1
    <3> QED
      BY <3>2, <3>3, <3>4
  <2>5. PICK notices \in Seq(ClientMessage) : notices = announced \o resumed
    <3>1. announced \o resumed \in Seq(ClientMessage)
      BY <2>4, ConcatProperties
    <3> QED
      BY <3>1
  <2>6. \A n \in DOMAIN notices : notices[n].type # "chunk"
    BY SMTT(30), <2>3, <2>4, <2>5, Joined
  <2>7. blocks \in Seq(ClientMessage) /\ blocks \in {<<>>, <<block>>}
    <3>1. <<block>> \in Seq(ClientMessage) /\ <<>> \in Seq(ClientMessage)
      BY <2>2
    <3> QED
      BY <2>1, <3>1
  <2>8. PICK messages \in Seq(ClientMessage) : messages = notices \o blocks
    <3>1. notices \o blocks \in Seq(ClientMessage)
      BY <2>7, ConcatProperties
    <3> QED
      BY <3>1
  <2>9. \A n \in DOMAIN messages : messages[n].type = "chunk" => messages[n] = block
    <3>1. \A n \in DOMAIN blocks : blocks[n] = block
      BY <2>7
    <3> QED
      BY <2>6, <2>8, <3>1, Joined
  <2>10. \A T : None(notices, T) => AtMostOne(messages, T)
    <3>1. \A T : AtMostOne(blocks, T)
      BY <2>7 DEF AtMostOne
    <3> QED
      BY <2>7, <2>8, <3>1, QueuesJoined
  <2>11. Post(c, messages, "top")
    BY <2>1, <2>3, <2>5, <2>8
  <2>12. /\ \A d \in Flows : d # c => toClient'[d] = toClient[d] /\ flow'[d] = flow[d]
         /\ toClient'[c] = IF link[c] = "open" THEN toClient[c] \o messages ELSE toClient[c]
         /\ flow'[c].pc \in {"top", "leaving"} /\ flow'[c].generation = flow[c].generation
    BY <1>3, <2>11, PostIs DEF ReadInv
  <2>13. /\ toServer' = toServer /\ link' = link /\ cancel' = cancel
         /\ revision' = revision /\ requests' = requests
    BY <1>1 DEF viewVars
  <2>14. PICK old \in Seq(ClientMessage) : old = toClient[c]
    BY <1>4
  <2>15. \A n \in DOMAIN toClient'[c] :
            toClient'[c][n].type = "chunk" => toClient'[c][n].rev <= revision
    <3>1. \A n \in DOMAIN old : old[n].type = "chunk" => old[n].rev <= revision
      BY <2>14 DEF FlightInv, RevisionsSound
    <3>2. \A n \in DOMAIN messages : messages[n].type = "chunk" => messages[n].rev <= revision
      BY <1>2, <2>2, <2>9
    <3>3. \A n \in DOMAIN (old \o messages) :
             (old \o messages)[n].type = "chunk" => (old \o messages)[n].rev <= revision
      BY SMTT(30), <3>1, <3>2, Joined
    <3> QED
      BY <2>12, <2>14, <3>1, <3>3
  <2>16. Moves(c)
    <3>1. /\ flow'[c].pc \in Serving /\ flow'[c].pc # "none" /\ flow'[c].pc # "done"
          /\ flow[c].pc \notin {"none", "done"} /\ flow'[c].generation = cancel'
      BY <1>2, <1>3, <2>12, <2>13 DEF Serving
    <3>2. Kept(toServer[c], toServer'[c])
      BY <2>13 DEF Kept
    <3> QED
      BY <1>2, <1>4, <2>1, <2>12, <2>13, <2>15, <3>1, <3>2 DEF Moves
  <2>17. ASSUME NEW rev \in Nat \ {0} PROVE InFlight(c, rev)'
    <3>1. InFlight(c, rev)
      BY DEF FlightInv
    <3>2. /\ Fewer(toServer[c], toServer'[c], AckOf(rev))
          /\ Fewer(toServer[c], toServer'[c], SubscribeOf(rev))
      BY <2>13 DEF Fewer
    <3>3. None(notices, BlockOf(rev))
      BY <2>6 DEF None, BlockOf
    <3>4. CASE \/ rev # selection.rev \/ link[c] # "open" \/ job.end = job.start
      <4>1. link[c] = "open" => None(messages, BlockOf(rev))
        <5>1. CASE rev # selection.rev
          BY <2>2, <2>9, <5>1 DEF None, BlockOf
        <5>2. CASE job.end = job.start
          <6>1. \A n \in DOMAIN blocks : FALSE
            BY <2>1, <5>2
          <6>2. \A n \in DOMAIN messages : messages[n].type # "chunk"
            BY SMTT(30), <2>6, <2>7, <2>8, <6>1, Joined
          <6> QED
            BY <6>2 DEF None, BlockOf
        <5> QED
          BY <3>4, <5>1, <5>2
      <4>2. Fewer(toClient[c], toClient'[c], BlockOf(rev))
        <5>1. Fewer(old, old, BlockOf(rev))
          BY DEF Fewer
        <5>2. None(messages, BlockOf(rev)) => Fewer(old, old \o messages, BlockOf(rev))
          BY QueuesJoined
        <5> QED
          BY <2>12, <2>14, <4>1, <5>1, <5>2
      <4>3. selection'.rev = rev /\ link[c] = "open" => (ack' = NoAck => ack = NoAck)
        BY <1>2
      <4>4. Calmer(c, rev)
        BY <1>2, <2>1, <2>13, <3>2, <4>2, <4>3 DEF Calmer
      <4> QED
        BY <3>1, <4>4, CalmerFlies
    <3>5. CASE rev = selection.rev /\ link[c] = "open" /\ job.end # job.start
      <4>1. ack' # NoAck
        <5>1. job.start \in Nat /\ job.end \in Nat /\ job.start <= job.end
          BY <1>4 DEF Jobs, JobFields
        <5> QED
          BY <2>1, <3>5, <5>1 DEF NoAck
      <4>2. Silent(c, rev) /\ None(toServer[c], SubscribeOf(rev))
            /\ (None(requests, SnapshotOf(rev)) \/ rev # revision)
        BY <1>2, <3>1, <3>5 DEF InFlight
      <4>3. AtMostOne(toClient'[c], BlockOf(rev))
        <5>1. None(old, BlockOf(rev))
          BY <2>14, <4>2 DEF Silent
        <5>2. AtMostOne(messages, BlockOf(rev))
          BY <2>10, <3>3
        <5> QED
          BY <2>12, <2>14, <3>5, <5>1, <5>2, QueuesJoined
      <4>4. /\ None(toServer'[c], AckOf(rev)) /\ AtMostOne(toServer'[c], AckOf(rev))
            /\ None(toServer'[c], SubscribeOf(rev)) /\ AtMostOne(toServer'[c], SubscribeOf(rev))
        BY <2>13, <3>1, <3>5, <4>2 DEF InFlight, Silent
      <4>5. None(requests', SnapshotOf(rev)) \/ rev # revision'
        BY <2>13, <4>2
      <4> QED
        BY <4>1, <4>3, <4>4, <4>5, Zenon DEF InFlight
    <3> QED
      BY <3>4, <3>5
  <2> QED
    BY <2>16, <2>17, MovesFly
<1> QED
  BY <1>6, <1>7

\* The steps of the flow keep one block at a time.
LEMMA FlowFlies ==
  ASSUME ReadInv, FlightInv, NEW c \in Flows, FlowStep(c) PROVE FlightInv'
<1>1. UNCHANGED <<socket, viewVars, requests>>
  BY DEF FlowStep
<1>2. CASE Receive(c)
  BY <1>1, <1>2, ReceiveFlies
<1>3. CASE PollTimeout(c)
  BY <1>1, <1>3, TimeoutFlies
<1>4. CASE PollOpen(c)
  BY <1>1, <1>4, OpenFlies
<1>5. CASE PollCompare(c) \/ PollRecord(c) \/ PollRead(c)
  BY <1>1, <1>5, GoingFlies, ReadFlies
<1>6. CASE \/ Begin(c) \/ Top(c) \/ Interrupted(c) \/ PollBusy(c) \/ PollNothing(c)
           \/ Leave(c) \/ Tidy(c) \/ Close(c)
  BY <1>1, <1>6, TurnFlies
<1> QED
  BY <1>2, <1>3, <1>4, <1>5, <1>6 DEF FlowStep


\* A step of the store: what it takes from its connections is no more than was there.
Takes ==
    /\ UNCHANGED <<selection, ack, cancel, flow>> /\ (job'.kind = "poll" => job' = job)
    /\ \A c \in Flows : /\ Kept(toClient[c], toClient'[c])
                        /\ \A T : Fewer(toClient[c], toClient'[c], T)
                        /\ flow[c].pc = "none" => toClient'[c] = <<>>
                        /\ link'[c] = link[c] \/ (link[c] = "open" /\ link'[c] = "cut")
                        /\ link'[c] = "open" => socket' = c

\* The store leaves the flows alone.
LEMMA TakesAlone ==
  ASSUME ReadInv, FlightInv, Takes,
         \A c \in Flows : toServer'[c] = toServer[c] \/ link[c] = "open"
  PROVE  FlowsSound'
<1>1. /\ FlowsSound /\ selection' = selection /\ ack' = ack /\ cancel' = cancel /\ flow' = flow
      /\ job'.kind = "poll" => job' = job
  BY DEF FlightInv, Takes
<1>2. ASSUME NEW c \in Flows
      PROVE  /\ flow'[c].pc \in Serving => flow'[c].generation = cancel'
             /\ flow'[c].pc = "none" => toServer'[c] = <<>> /\ toClient'[c] = <<>>
             /\ flow'[c].pc = "none" <=> link'[c] = "none"
             /\ flow'[c].pc = "done" => link'[c] = "cut"
             /\ link'[c] = "open" => socket' = c
  BY <1>1 DEF FlowsSound, Takes
<1> QED
  BY <1>1, <1>2 DEF FlowsSound

\* Only a connection of the store that is open gets a message.
LEMMA SendsOne ==
  ASSUME ReadInv, FlightInv, NEW message \in ServerMessage, Send(message), NEW c \in Flows
  PROVE  \/ toServer'[c] = toServer[c] /\ (link[c] = "open" => socket # c)
         \/ c = socket /\ link[c] = "open" /\ toServer'[c] = Append(toServer[c], message)
<1>1. toServer \in [Flows -> Seq(ServerMessage)] /\ socket \in 0..Connections
  BY DEF ReadInv, ServerTyped, StoreTyped
<1>2. CASE socket # 0 /\ link[socket] = "open"
  <2>1. toServer' = [toServer EXCEPT ![socket] = Append(toServer[socket], message)]
    BY <1>2, Zenon DEF Send
  <2> QED
    BY <1>1, <1>2, <2>1 DEF Flows
<1>3. CASE ~(socket # 0 /\ link[socket] = "open")
  <2>1. toServer' = toServer
    BY <1>3 DEF Send
  <2>2. c # 0
    BY DEF Flows
  <2> QED
    BY <1>3, <2>1, <2>2
<1> QED
  BY <1>2, <1>3

\* A message of a kind that counts nothing, or of a selection that is.
LEMMA SendFewer ==
  ASSUME ReadInv, FlightInv, NEW message \in ServerMessage, Send(message), NEW c \in Flows, NEW T,
         message \notin T
  PROVE  Fewer(toServer[c], toServer'[c], T)
<1>1. PICK s \in Seq(ServerMessage) : s = toServer[c]
  BY DEF ReadInv, ServerTyped
<1>2. toServer'[c] = s \/ toServer'[c] = Append(s, message)
  BY <1>1, SendsOne
<1>3. Fewer(s, s, T) /\ Fewer(s, Append(s, message), T)
  BY QueueLonger DEF Fewer
<1> QED
  BY <1>1, <1>2, <1>3

\* The selections of the messages to the server.
LEMMA SendRevisions ==
  ASSUME ReadInv, FlightInv, NEW message \in ServerMessage, Send(message), NEW c \in Flows,
         message.type \in {"subscribe", "ack"} => message.rev <= revision,
         revision' \in Nat, revision <= revision'
  PROVE  \A n \in DOMAIN toServer'[c] :
            toServer'[c][n].type \in {"subscribe", "ack"} => toServer'[c][n].rev <= revision'
<1>1. PICK s \in Seq(ServerMessage) : s = toServer[c]
  BY DEF ReadInv, ServerTyped
<1>2. toServer'[c] = s \/ toServer'[c] = Append(s, message)
  BY <1>1, SendsOne
<1>3. \A m \in ServerMessage : m.type \in {"subscribe", "ack"} => m.rev \in Nat
  BY ChunksAre DEF SubscribeMessage, AckMessage
<1>4. revision \in Nat /\ \A x \in Nat : x <= revision => x <= revision'
  BY DEF ReadInv, StoreTyped
<1>5. \A n \in DOMAIN s : s[n].type \in {"subscribe", "ack"} => s[n].rev <= revision'
  <2>1. ASSUME NEW n \in DOMAIN s, s[n].type \in {"subscribe", "ack"} PROVE s[n].rev <= revision'
    <3>1. s[n].rev <= revision
      BY <1>1, <2>1 DEF FlightInv, RevisionsSound
    <3>2. s[n].rev \in Nat
      BY <1>3, <2>1
    <3> QED
      BY <1>4, <3>1, <3>2
  <2> QED
    BY <2>1
<1>6. message.type \in {"subscribe", "ack"} => message.rev <= revision'
  BY <1>3, <1>4
<1>7. \A n \in DOMAIN Append(s, message) :
         Append(s, message)[n] = message \/ \E k \in DOMAIN s : Append(s, message)[n] = s[k]
  <2>1. /\ Len(s) \in Nat /\ DOMAIN s = 1..Len(s) /\ DOMAIN Append(s, message) = 1..Len(s) + 1
        /\ \A n \in 1..Len(s) + 1 : Append(s, message)[n] = IF n <= Len(s) THEN s[n] ELSE message
    OBVIOUS
  <2>2. \A n \in 1..Len(s) + 1 : n <= Len(s) => n \in DOMAIN s
    BY <2>1
  <2> QED
    BY <2>1, <2>2
<1>8. \A n \in DOMAIN Append(s, message) :
         Append(s, message)[n].type \in {"subscribe", "ack"} => Append(s, message)[n].rev <= revision'
  BY <1>5, <1>6, <1>7
<1> QED
  BY <1>2, <1>5, <1>8

\* The blocks that are left are of selections that there were.
LEMMA TakesRevisions ==
  ASSUME ReadInv, FlightInv, Takes, revision' \in Nat, revision <= revision'
  PROVE  /\ selection'.rev <= revision'
         /\ \A c \in Flows : \A n \in DOMAIN toClient'[c] :
               toClient'[c][n].type = "chunk" => toClient'[c][n].rev <= revision'
<1>1. /\ revision \in Nat /\ selection.rev \in Nat /\ selection' = selection
      /\ toClient \in [Flows -> Seq(ClientMessage)]
  BY DEF ReadInv, ServerTyped, StoreTyped, Takes
<1>2. selection'.rev <= revision'
  BY <1>1 DEF FlightInv, RevisionsSound
<1>3. ASSUME NEW c \in Flows, NEW n \in DOMAIN toClient'[c], toClient'[c][n].type = "chunk"
      PROVE  toClient'[c][n].rev <= revision'
  <2>1. PICK k \in DOMAIN toClient[c] : toClient'[c][n] = toClient[c][k]
    BY DEF Takes, Kept
  <2>2. PICK m \in ClientMessage : m = toClient[c][k]
    BY <1>1
  <2>3. m \in ChunkMessage /\ m.rev <= revision
    BY <1>3, <2>1, <2>2, ChunksAre DEF FlightInv, RevisionsSound
  <2>4. m.rev \in Nat
    BY <2>3 DEF ChunkMessage
  <2> QED
    BY <1>1, <2>1, <2>2, <2>3, <2>4
<1> QED
  BY <1>2, <1>3


\* Nothing of a selection to come is anywhere.
LEMMA NothingToCome ==
  ASSUME ReadInv, FlightInv, NEW rev \in Nat, rev > revision, NEW c \in Flows
  PROVE  /\ None(toClient[c], BlockOf(rev)) /\ None(toServer[c], AckOf(rev))
         /\ None(toServer[c], SubscribeOf(rev)) /\ selection.rev # rev
<1>1. revision \in Nat /\ ~(rev <= revision)
  BY DEF ReadInv, StoreTyped
<1>2. /\ \A n \in DOMAIN toServer[c] :
            toServer[c][n].type \in {"subscribe", "ack"} => toServer[c][n].rev # rev
      /\ \A n \in DOMAIN toClient[c] : toClient[c][n].type = "chunk" => toClient[c][n].rev # rev
      /\ selection.rev # rev
  BY <1>1 DEF FlightInv, RevisionsSound
<1> QED
  BY <1>2 DEF None, BlockOf, AckOf, SubscribeOf

\* What is nowhere in a queue is not twice in it.
LEMMA NoneOnce == \A s, T : None(s, T) => AtMostOne(s, T)
BY DEF None, AtMostOne

\* A step of the store that sends nothing.
LEMMA IdleFlies ==
  ASSUME ReadInv, FlightInv, Takes, toServer' = toServer, revision' = revision,
         window'.generation = window.generation,
         \A n \in DOMAIN requests' : requests'[n].rev <= revision,
         Fewer(requests, requests', SnapshotOf(revision))
  PROVE  FlightInv'
<1>1. FlowsSound'
  BY TakesAlone
<1>2. revision \in Nat /\ revision <= revision' /\ revision' \in Nat
  BY DEF ReadInv, StoreTyped
<1>3. RevisionsSound'
  <2>1. /\ selection'.rev <= revision'
        /\ \A c \in Flows : \A n \in DOMAIN toClient'[c] :
              toClient'[c][n].type = "chunk" => toClient'[c][n].rev <= revision'
    BY <1>2, TakesRevisions
  <2>2. \A c \in Flows : \A n \in DOMAIN toServer'[c] :
           toServer'[c][n].type \in {"subscribe", "ack"} => toServer'[c][n].rev <= revision'
    BY DEF FlightInv, RevisionsSound
  <2>3. AtMostOne(requests', SnapshotOf(revision'))
        /\ (~None(requests', SnapshotOf(revision')) => window'.generation = 0)
    BY DEF FlightInv, RevisionsSound, Fewer
  <2>4. AtMostOne(requests, SnapshotOf(revision))' /\ (~None(requests, SnapshotOf(revision)) => window.generation = 0)'
    BY <2>3 DEF AtMostOne, None, SnapshotOf
  <2> QED
    BY <2>1, <2>2, <2>4 DEF RevisionsSound
<1>4. ASSUME NEW c \in Flows, NEW rev \in Nat \ {0} PROVE InFlight(c, rev)'
  <2>1. \A T : Fewer(toClient[c], toClient'[c], T) /\ Fewer(toServer[c], toServer'[c], T)
    BY DEF Takes, Fewer
  <2>2. Calmer(c, rev)
    BY <2>1 DEF Calmer, Takes, Fewer
  <2> QED
    BY <2>2, CalmerFlies DEF FlightInv
<1> QED
  BY <1>1, <1>3, <1>4 DEF FlightInv

\* The file is read again: nothing of the new selection is on its way.
LEMMA SelectFlies ==
  ASSUME ReadInv, FlightInv, Takes, NEW queue \in Seq(Requests),
         \A n \in DOMAIN queue : queue[n].rev <= revision, Select(queue)
  PROVE  FlightInv'
<1>1. /\ revision' = revision + 1 /\ Send([type |-> "unsubscribe"]) /\ window' = EmptyWindow
      /\ requests' = Append(queue, Request("snapshot", revision', EmptyWindow))
  BY DEF Select
<1>2. revision \in Nat /\ revision' \in Nat /\ revision <= revision' /\ revision' > revision
  BY <1>1 DEF ReadInv, StoreTyped
<1>3. PICK message \in ServerMessage : message = [type |-> "unsubscribe"]
  BY DEF ServerMessage
<1>4. Send(message) /\ message.type \notin {"subscribe", "ack"}
  BY <1>1, <1>3
<1>5. PICK q : q = Request("snapshot", revision', EmptyWindow)
  OBVIOUS
<1>6. q \in Requests /\ q.rev = revision' /\ requests' = Append(queue, q)
  <2>1. q = [kind |-> "snapshot", rev |-> revision', before |-> 0, generation |-> 0, reply |-> NoReply]
    BY <1>5 DEF Request, EmptyWindow
  <2>2. NoReply \in Replies /\ 0 \in Lengths
    BY EmptySound
  <2> QED
    BY <1>1, <1>2, <1>5, <2>1, <2>2 DEF Requests
<1>7. FlowsSound'
  <2>1. \A c \in Flows : toServer'[c] = toServer[c] \/ link[c] = "open"
    BY <1>4, SendsOne
  <2> QED
    BY <2>1, TakesAlone
<1>8. RevisionsSound'
  <2>1. /\ selection'.rev <= revision'
        /\ \A c \in Flows : \A n \in DOMAIN toClient'[c] :
              toClient'[c][n].type = "chunk" => toClient'[c][n].rev <= revision'
    BY <1>2, TakesRevisions
  <2>2. \A c \in Flows : \A n \in DOMAIN toServer'[c] :
           toServer'[c][n].type \in {"subscribe", "ack"} => toServer'[c][n].rev <= revision'
    BY <1>2, <1>4, SendRevisions
  <2>3. ASSUME NEW n \in DOMAIN queue PROVE queue[n].rev <= revision' /\ queue[n].rev # revision'
    <3>1. queue[n].rev \in Nat /\ queue[n].rev <= revision
      <4>1. queue[n] \in Requests
        OBVIOUS
      <4> QED
        BY <4>1 DEF Requests
    <3> QED
      BY <1>1, <1>2, <3>1
  <2>4. \A n \in DOMAIN requests' : requests'[n].rev <= revision'
    <3>1. \A n \in DOMAIN Append(queue, q) :
             Append(queue, q)[n] = q \/ \E k \in DOMAIN queue : Append(queue, q)[n] = queue[k]
      BY <1>6, QueueIs
    <3> QED
      BY <1>2, <1>6, <2>3, <3>1
  <2>5. AtMostOne(requests', SnapshotOf(revision'))
    <3>1. None(queue, SnapshotOf(revision'))
      BY <2>3 DEF None, SnapshotOf
    <3>2. \A T : None(queue, T) => AtMostOne(Append(queue, q), T)
      BY <1>6, QueueLonger
    <3> QED
      BY <1>6, <3>1, <3>2
  <2>6. AtMostOne(requests, SnapshotOf(revision))'
    BY <2>5 DEF AtMostOne, SnapshotOf
  <2> QED
    BY <1>1, <2>1, <2>2, <2>4, <2>6 DEF RevisionsSound, EmptyWindow
<1>9. ASSUME NEW c \in Flows, NEW rev \in Nat \ {0} PROVE InFlight(c, rev)'
  <2>1. /\ Fewer(toClient[c], toClient'[c], BlockOf(rev))
        /\ Fewer(toServer[c], toServer'[c], AckOf(rev))
        /\ Fewer(toServer[c], toServer'[c], SubscribeOf(rev))
    <3>1. message \notin AckOf(rev) /\ message \notin SubscribeOf(rev)
      BY <1>4 DEF AckOf, SubscribeOf
    <3> QED
      BY <1>4, <3>1, SendFewer DEF Takes
  <2>2. CASE rev # revision'
    <3>1. Calmer(c, rev)
      BY <2>1, <2>2 DEF Calmer, Takes
    <3> QED
      BY <3>1, CalmerFlies DEF FlightInv
  <2>3. CASE rev = revision'
    <3>1. /\ None(toClient[c], BlockOf(rev)) /\ None(toServer[c], AckOf(rev))
          /\ None(toServer[c], SubscribeOf(rev)) /\ selection.rev # rev
      BY <1>2, <2>3, NothingToCome
    <3>2. /\ None(toClient'[c], BlockOf(rev)) /\ None(toServer'[c], AckOf(rev))
          /\ None(toServer'[c], SubscribeOf(rev)) /\ selection'.rev # rev
      BY <2>1, <3>1 DEF Fewer, Takes
    <3> QED
      BY <3>2, NoneOnce, Zenon DEF InFlight, Silent
  <2> QED
    BY <2>2, <2>3
<1> QED
  BY <1>7, <1>8, <1>9 DEF FlightInv

\* The window has been read: its selection is subscribed to once.
LEMMA SubscribeFlies ==
  ASSUME ReadInv, FlightInv, Takes, link' = link, revision' = revision,
         requests # <<>>, Head(requests) \in SnapshotOf(revision), requests' = Tail(requests),
         NEW message \in ServerMessage, message.type = "subscribe", message.rev = revision,
         Send(message)
  PROVE  FlightInv'
<1>1. /\ revision \in Nat /\ revision <= revision' /\ revision' \in Nat
      /\ requests \in Seq(Requests)
  BY DEF ReadInv, StoreTyped
<1>2. FlowsSound'
  <2>1. \A c \in Flows : toServer'[c] = toServer[c] \/ link[c] = "open"
    BY SendsOne
  <2> QED
    BY <2>1, TakesAlone
<1>3. ~None(requests, SnapshotOf(revision)) /\ None(requests', SnapshotOf(revision))
  <2>1. \A T : Head(requests) \in T =>
           ~None(requests, T) /\ (AtMostOne(requests, T) => None(Tail(requests), T))
    BY <1>1, HeadCounts
  <2>2. AtMostOne(requests, SnapshotOf(revision))
    BY DEF FlightInv, RevisionsSound
  <2> QED
    BY <2>1, <2>2
<1>4. RevisionsSound'
  <2>1. /\ selection'.rev <= revision'
        /\ \A c \in Flows : \A n \in DOMAIN toClient'[c] :
              toClient'[c][n].type = "chunk" => toClient'[c][n].rev <= revision'
    BY <1>1, TakesRevisions
  <2>2. \A c \in Flows : \A n \in DOMAIN toServer'[c] :
           toServer'[c][n].type \in {"subscribe", "ack"} => toServer'[c][n].rev <= revision'
    BY <1>1, SendRevisions
  <2>3. \A n \in DOMAIN requests' : requests'[n].rev <= revision'
    <3>1. \A n \in DOMAIN Tail(requests) : n + 1 \in DOMAIN requests /\ Tail(requests)[n] = requests[n + 1]
      BY <1>1, TailIs
    <3> QED
      BY <3>1 DEF FlightInv, RevisionsSound
  <2>4. None(requests', SnapshotOf(revision')) /\ AtMostOne(requests', SnapshotOf(revision'))
    BY <1>3, NoneOnce
  <2>5. None(requests, SnapshotOf(revision))' /\ AtMostOne(requests, SnapshotOf(revision))'
    BY <2>4 DEF None, AtMostOne, SnapshotOf
  <2> QED
    BY <2>1, <2>2, <2>3, <2>5 DEF RevisionsSound
<1>5. ASSUME NEW c \in Flows, NEW rev \in Nat \ {0} PROVE InFlight(c, rev)'
  <2>1. InFlight(c, rev)
    BY DEF FlightInv
  <2>2. Fewer(toClient[c], toClient'[c], BlockOf(rev)) /\ Fewer(toServer[c], toServer'[c], AckOf(rev))
    <3>1. message \notin AckOf(rev)
      BY DEF AckOf
    <3> QED
      BY <3>1, SendFewer DEF Takes
  <2>3. rev # revision \/ (c # socket \/ link[c] # "open") => Calmer(c, rev)
    <3>1. CASE rev # revision
      <4>1. message \notin SubscribeOf(rev)
        BY <3>1 DEF SubscribeOf
      <4>2. Fewer(toServer[c], toServer'[c], SubscribeOf(rev))
        BY <4>1, SendFewer
      <4> QED
        BY <2>2, <3>1, <4>2 DEF Calmer, Takes
    <3>2. CASE c # socket \/ link[c] # "open"
      <4>1. link[c] # "open"
        BY <3>2 DEF FlightInv, FlowsSound
      <4> QED
        BY <2>2, <4>1 DEF Calmer
    <3> QED
      BY <3>1, <3>2
  <2>4. CASE rev = revision /\ c = socket /\ link[c] = "open"
    <3>1. Silent(c, rev) /\ selection.rev # rev /\ None(toServer[c], SubscribeOf(rev))
      BY <1>3, <2>1, <2>4, Zenon DEF InFlight
    <3>2. None(toClient'[c], BlockOf(rev)) /\ None(toServer'[c], AckOf(rev)) /\ selection'.rev # rev
      BY <2>2, <3>1 DEF Fewer, Takes, Silent
    <3>3. AtMostOne(toServer'[c], SubscribeOf(rev))
      <4>1. PICK s \in Seq(ServerMessage) : s = toServer[c]
        BY DEF ReadInv, ServerTyped
      <4>2. toServer'[c] = s \/ toServer'[c] = Append(s, message)
        BY <4>1, SendsOne
      <4>3. AtMostOne(s, SubscribeOf(rev)) /\ AtMostOne(Append(s, message), SubscribeOf(rev))
        BY <3>1, <4>1, NoneOnce, QueueLonger
      <4> QED
        BY <4>2, <4>3
    <3>4. None(requests', SnapshotOf(rev)) \/ rev # revision'
      BY <1>3, <2>4
    <3> QED
      BY <3>2, <3>3, <3>4, NoneOnce, Zenon DEF InFlight, Silent
  <2> QED
    BY <2>1, <2>3, <2>4, CalmerFlies
<1> QED
  BY <1>2, <1>4, <1>5 DEF FlightInv

\* A block becomes its acknowledgement.
LEMMA AckFlies ==
  ASSUME ReadInv, FlightInv, Takes, link' = link, revision' = revision, requests' = requests,
         window'.generation = window.generation, socket \in Flows, toClient[socket] # <<>>,
         Head(toClient[socket]) \in BlockOf(revision), toClient'[socket] = Tail(toClient[socket]),
         NEW message \in ServerMessage, message.type = "ack", message.rev = revision,
         Send(message)
  PROVE  FlightInv'
<1>1. revision \in Nat /\ revision <= revision' /\ revision' \in Nat
  BY DEF ReadInv, StoreTyped
<1>2. FlowsSound'
  <2>1. \A c \in Flows : toServer'[c] = toServer[c] \/ link[c] = "open"
    BY SendsOne
  <2> QED
    BY <2>1, TakesAlone
<1>3. RevisionsSound'
  <2>1. /\ selection'.rev <= revision'
        /\ \A c \in Flows : \A n \in DOMAIN toClient'[c] :
              toClient'[c][n].type = "chunk" => toClient'[c][n].rev <= revision'
    BY <1>1, TakesRevisions
  <2>2. \A c \in Flows : \A n \in DOMAIN toServer'[c] :
           toServer'[c][n].type \in {"subscribe", "ack"} => toServer'[c][n].rev <= revision'
    BY <1>1, SendRevisions
  <2>3. /\ AtMostOne(requests', SnapshotOf(revision')) /\ \A n \in DOMAIN requests' : requests'[n].rev <= revision'
        /\ ~None(requests', SnapshotOf(revision')) => window'.generation = 0
    BY DEF FlightInv, RevisionsSound
  <2>4. /\ AtMostOne(requests, SnapshotOf(revision))'
        /\ (~None(requests, SnapshotOf(revision)) => window.generation = 0)'
    BY <2>3 DEF None, AtMostOne, SnapshotOf
  <2> QED
    BY <2>1, <2>2, <2>3, <2>4 DEF RevisionsSound
<1>4. ASSUME NEW c \in Flows, NEW rev \in Nat \ {0} PROVE InFlight(c, rev)'
  <2>1. InFlight(c, rev)
    BY DEF FlightInv
  <2>2. Fewer(toClient[c], toClient'[c], BlockOf(rev)) /\ Fewer(toServer[c], toServer'[c], SubscribeOf(rev))
    <3>1. message \notin SubscribeOf(rev)
      BY DEF SubscribeOf
    <3> QED
      BY <3>1, SendFewer DEF Takes
  <2>3. CASE rev # revision \/ c # socket
    <3>1. Fewer(toServer[c], toServer'[c], AckOf(rev))
      <4>1. CASE rev # revision
        <5>1. message \notin AckOf(rev)
          BY <4>1 DEF AckOf
        <5> QED
          BY <5>1, SendFewer
      <4>2. CASE c # socket
        BY <4>2, SendsOne DEF Fewer
      <4> QED
        BY <2>3, <4>1, <4>2
    <3>2. Calmer(c, rev)
      BY <2>2, <3>1 DEF Calmer, Takes
    <3> QED
      BY <2>1, <3>2, CalmerFlies
  <2>4. CASE rev = revision /\ c = socket
    <3>1. PICK old \in Seq(ClientMessage) : old = toClient[c]
      BY DEF ReadInv, ServerTyped
    <3>2. old # <<>> /\ Head(old) \in BlockOf(rev) /\ toClient'[c] = Tail(old)
      BY <2>4, <3>1
    <3>3. ~None(old, BlockOf(rev)) /\ (AtMostOne(old, BlockOf(rev)) => None(toClient'[c], BlockOf(rev)))
      BY <3>2, HeadCounts
    <3>4. /\ None(toServer[c], AckOf(rev)) /\ None(toClient'[c], BlockOf(rev)) /\ ~Silent(c, rev)
      BY <2>1, <3>1, <3>3 DEF InFlight, Silent
    <3>5. AtMostOne(toServer'[c], AckOf(rev))
      <4>1. PICK s \in Seq(ServerMessage) : s = toServer[c]
        BY DEF ReadInv, ServerTyped
      <4>2. toServer'[c] = s \/ toServer'[c] = Append(s, message)
        BY <4>1, SendsOne
      <4>3. AtMostOne(s, AckOf(rev)) /\ AtMostOne(Append(s, message), AckOf(rev))
        BY <3>4, <4>1, NoneOnce, QueueLonger
      <4> QED
        BY <4>2, <4>3
    <3>6. selection' = selection /\ ack' = ack /\ link' = link
      BY DEF Takes
    <3> QED
      BY <2>1, <2>2, <3>4, <3>5, <3>6, NoneOnce, Zenon DEF InFlight, Fewer
  <2> QED
    BY <2>3, <2>4
<1> QED
  BY <1>2, <1>3, <1>4 DEF FlightInv


\* What the store takes from its connections, it takes in order.
LEMMA TakesInOrder ==
  ASSUME ReadInv, FlightInv, UNCHANGED <<selection, ack, cancel, flow>>,
         job'.kind = "poll" => job' = job,
         \A c \in Flows :
            /\ \/ toClient'[c] \in {toClient[c], <<>>}
               \/ toClient[c] # <<>> /\ toClient'[c] = Tail(toClient[c])
            /\ link'[c] = link[c] \/ (link[c] = "open" /\ link'[c] = "cut")
            /\ link'[c] = "open" => socket' = c
  PROVE  Takes
<1>1. ASSUME NEW c \in Flows
      PROVE  /\ Kept(toClient[c], toClient'[c]) /\ \A T : Fewer(toClient[c], toClient'[c], T)
             /\ flow[c].pc = "none" => toClient'[c] = <<>>
  <2>1. PICK s, t : s = toClient[c] /\ t = toClient'[c]
    OBVIOUS
  <2>2. s \in Seq(ClientMessage) /\ (t = s \/ (s # <<>> /\ t = Tail(s)) \/ t = <<>>)
    BY <2>1 DEF ReadInv, ServerTyped
  <2>3. Kept(s, t) /\ \A T : Fewer(s, t, T)
    BY <2>2, QueueShorter
  <2>4. flow[c].pc = "none" => s = <<>>
    BY <2>1 DEF FlightInv, FlowsSound
  <2> QED
    BY <2>1, <2>2, <2>3, <2>4
<1> QED
  BY <1>1 DEF Takes

\* The requests that are left.
LEMMA RestFewer ==
  ASSUME ReadInv, FlightInv, requests # <<>>
  PROVE  /\ Tail(requests) \in Seq(Requests)
         /\ \A n \in DOMAIN Tail(requests) : Tail(requests)[n].rev <= revision
         /\ Fewer(requests, Tail(requests), SnapshotOf(revision))
<1>1. requests \in Seq(Requests)
  BY DEF ReadInv, StoreTyped
<1>2. PICK rest : rest = Tail(requests)
  OBVIOUS
<1>3. Kept(requests, rest) /\ \A T : Fewer(requests, rest, T)
  BY <1>1, <1>2, QueueShorter
<1>4. rest \in Seq(Requests)
  BY <1>1, <1>2
<1> QED
  BY <1>2, <1>3, <1>4 DEF Kept, FlightInv, RevisionsSound

\* A window that is extended or trimmed is of the same generation.
LEMMA TrimsOnly ==
  ASSUME NEW w \in Windows, NEW b
  PROVE  KeepLast([w EXCEPT !.bytes = b]).generation = w.generation
<1>1. w = [generation |-> w.generation, start |-> w.start, bytes |-> w.bytes]
  BY DEF Windows
<1>2. PICK v : v = [w EXCEPT !.bytes = b]
  OBVIOUS
<1>3. v = [generation |-> w.generation, start |-> w.start, bytes |-> b]
  BY <1>1, <1>2
<1> QED
  BY <1>2, <1>3 DEF KeepLast

\* A reply is used: the flow is subscribed to after the read, and only then.
LEMMA RespondFlies ==
  ASSUME ReadInv, FlightInv, Respond, UNCHANGED <<diskVars, rootVars, dataVars, cancel, flow, job>>
  PROVE  FlightInv'
<1>1. PICK request, reply, rest, block :
         /\ request = Head(requests) /\ reply = request.reply /\ rest = Tail(requests)
         /\ block = [generation |-> reply.generation, start |-> reply.start, bytes |-> reply.bytes]
         /\ \/ requests' = rest /\ UNCHANGED <<toServer, viewVars>>
            \/ /\ request.rev = revision /\ request.kind = "snapshot"
               /\ cursor' = End(block) /\ reply.code = "ok"
               /\ Send(Subscription(block.generation, End(block)))
               /\ requests' = rest /\ UNCHANGED <<revision, following, newer>>
            \/ /\ requests' = rest
               /\ UNCHANGED <<toServer, revision, cursor, window, following, newer>>
            \/ /\ IF block.generation = window.generation /\ End(block) = window.start
                  THEN window' = KeepFirst([block EXCEPT !.bytes = @ \o window.bytes])
                  ELSE UNCHANGED window
               /\ requests' = rest /\ UNCHANGED <<toServer, revision>>
            \/ Select(rest)
  BY DEF Respond
<1>2. /\ requests # <<>> /\ socket' = socket /\ link' = link /\ toClient' = toClient
      /\ UNCHANGED <<selection, ack, cancel, flow, job>>
  BY DEF Respond, dataVars
<1>3. requests \in Seq(Requests) /\ revision \in Nat /\ window \in Windows /\ cursor' \in Lengths
  BY RespondKeeps DEF ReadInv, StoreTyped
<1>4. /\ rest \in Seq(Requests) /\ \A n \in DOMAIN rest : rest[n].rev <= revision
      /\ Fewer(requests, rest, SnapshotOf(revision))
  BY <1>1, <1>2, RestFewer
<1>5. Takes
  <2>1. \A c \in Flows : link'[c] = "open" => socket' = c
    BY <1>2 DEF FlightInv, FlowsSound
  <2> QED
    BY <1>2, <2>1, TakesInOrder
<1>6. request \in Requests
  BY <1>1, <1>2, <1>3, TailIs
<1>7. ASSUME requests' = rest, toServer' = toServer, revision' = revision,
             window'.generation = window.generation
      PROVE  FlightInv'
  BY <1>4, <1>5, <1>7, IdleFlies
<1>8. CASE requests' = rest /\ UNCHANGED <<toServer, viewVars>>
  BY <1>7, <1>8 DEF viewVars
<1>9. CASE requests' = rest /\ UNCHANGED <<toServer, revision, cursor, window, following, newer>>
  BY <1>7, <1>9
<1>10. CASE /\ IF block.generation = window.generation /\ End(block) = window.start
               THEN window' = KeepFirst([block EXCEPT !.bytes = @ \o window.bytes])
               ELSE UNCHANGED window
            /\ requests' = rest /\ UNCHANGED <<toServer, revision>>
  <2>1. KeepFirst([block EXCEPT !.bytes = @ \o window.bytes]).generation = block.generation
    <3>1. PICK b : b = block.bytes \o window.bytes
      OBVIOUS
    <3>2. [block EXCEPT !.bytes = @ \o window.bytes] = [block EXCEPT !.bytes = b]
      BY <3>1, Zenon
    <3>3. block = [generation |-> reply.generation, start |-> reply.start, bytes |-> reply.bytes]
      BY <1>1
    <3>4. [block EXCEPT !.bytes = b] =
             [generation |-> reply.generation, start |-> reply.start, bytes |-> b]
      BY <3>3
    <3> QED
      BY <3>2, <3>3, <3>4 DEF KeepFirst
  <2> QED
    BY <1>7, <1>10, <2>1
<1>11. CASE Select(rest)
  BY <1>4, <1>5, <1>11, SelectFlies
<1>12. CASE /\ request.rev = revision /\ request.kind = "snapshot"
            /\ cursor' = End(block) /\ reply.code = "ok"
            /\ Send(Subscription(block.generation, End(block)))
            /\ requests' = rest /\ UNCHANGED <<revision, following, newer>>
  <2>1. Head(requests) \in SnapshotOf(revision)
    BY <1>1, <1>6, <1>12 DEF SnapshotOf
  <2>2. PICK m : m = Subscription(block.generation, End(block))
    OBVIOUS
  <2>3. m = [type |-> "subscribe", rev |-> revision, generation |-> block.generation, offset |-> cursor']
    BY <1>12, <2>2 DEF Subscription
  <2>4. block.generation \in Nat
    <3>1. reply \in Replies
      BY <1>1, <1>6, AreReadings
    <3> QED
      BY <1>1, <3>1 DEF Replies
  <2>5. m \in ServerMessage /\ m.type = "subscribe" /\ m.rev = revision
    BY <1>3, <2>3, <2>4 DEF ServerMessage, SubscribeMessage
  <2>6. Send(m) /\ requests' = Tail(requests) /\ revision' = revision
    BY <1>1, <1>12, <2>2
  <2> QED
    BY <1>2, <1>5, <2>1, <2>5, <2>6, SubscribeFlies
<1> QED
  BY <1>1, <1>8, <1>9, <1>10, <1>11, <1>12

\* A message of the flow is taken: a block is acknowledged or the file read again.
LEMMA DeliverFlies ==
  ASSUME ReadInv, FlightInv, Deliver, UNCHANGED <<diskVars, rootVars, dataVars, cancel, flow, job>>
  PROVE  FlightInv'
<1>1. PICK message :
         /\ message = Head(toClient[socket])
         /\ \/ UNCHANGED <<toServer, viewVars, requests, link>>
            \/ /\ Shows(StatusOf(message.type))
               /\ link' = IF message.type = "resync-required"
                          THEN [link EXCEPT ![socket] = "cut"] ELSE link
            \/ /\ ~OutOfDate(message) /\ message.type = "chunk"
               /\ TakeChunk(message) /\ UNCHANGED link
            \/ Select(requests) /\ UNCHANGED link
  BY DEF Deliver
<1>2. /\ socket # 0 /\ toClient[socket] # <<>> /\ socket' = socket
      /\ toClient' = [toClient EXCEPT ![socket] = Tail(toClient[socket])]
  BY Zenon DEF Deliver
<1>3. /\ requests \in Seq(Requests) /\ socket \in Flows /\ revision \in Nat
      /\ window \in Windows
  BY <1>2 DEF ReadInv, StoreTyped, Flows
<1>4. /\ toServer \in [Flows -> Seq(ServerMessage)] /\ toClient \in [Flows -> Seq(ClientMessage)]
      /\ link \in [Flows -> {"none", "open", "cut"}]
  BY DEF ReadInv, ServerTyped
<1>5. message \in ClientMessage
  <2>1. toClient[socket] \in Seq(ClientMessage)
    BY <1>3, <1>4
  <2> QED
    BY <1>1, <1>2, <2>1, TailIs
<1>6. ASSUME \/ link' = link
             \/ link' = [link EXCEPT ![socket] = "cut"] /\ link[socket] \in {"open", "cut"}
      PROVE  Takes
  <2>1. UNCHANGED <<selection, ack, cancel, flow, job>>
    BY DEF dataVars
  <2>2. \A c \in Flows : \/ toClient'[c] \in {toClient[c], <<>>}
                         \/ toClient[c] # <<>> /\ toClient'[c] = Tail(toClient[c])
    BY <1>2, <1>4
  <2>3. \A c \in Flows : /\ link'[c] = link[c] \/ (link[c] = "open" /\ link'[c] = "cut")
                         /\ link'[c] = "open" => link[c] = "open"
    BY <1>4, <1>6
  <2>4. \A c \in Flows : link'[c] = "open" => socket' = c
    BY <1>2, <2>3 DEF FlightInv, FlowsSound
  <2> QED
    BY <2>1, <2>2, <2>3, <2>4, TakesInOrder
<1>7. link[socket] \in {"open", "cut"}
  BY <1>2, <1>3, <1>4 DEF FlightInv, FlowsSound
<1>8. ASSUME Takes, toServer' = toServer, revision' = revision, window' = window, requests' = requests
      PROVE  FlightInv'
  <2>1. \A n \in DOMAIN requests' : requests'[n].rev <= revision
    BY <1>8 DEF FlightInv, RevisionsSound
  <2>2. Fewer(requests, requests', SnapshotOf(revision))
    BY <1>8 DEF Fewer
  <2> QED
    BY <1>8, <2>1, <2>2, IdleFlies
<1>9. CASE UNCHANGED <<toServer, viewVars, requests, link>>
  BY <1>6, <1>8, <1>9 DEF viewVars
<1>10. CASE /\ Shows(StatusOf(message.type))
            /\ link' = IF message.type = "resync-required" THEN [link EXCEPT ![socket] = "cut"] ELSE link
  BY <1>6, <1>7, <1>8, <1>10 DEF Shows
<1>11. CASE Select(requests) /\ UNCHANGED link
  <2>1. \A n \in DOMAIN requests : requests[n].rev <= revision
    BY DEF FlightInv, RevisionsSound
  <2> QED
    BY <1>3, <1>6, <1>11, <2>1, SelectFlies
<1>12. CASE ~OutOfDate(message) /\ message.type = "chunk" /\ TakeChunk(message) /\ UNCHANGED link
  <2>1. CASE Select(requests)
    BY <1>11, <1>12, <2>1
  <2>2. CASE ~Select(requests)
    <3>1. /\ IF following THEN window' = KeepLast([window EXCEPT !.bytes = @ \o message.bytes])
             ELSE window' = window
          /\ cursor' = End(message)
          /\ Send([type |-> "ack", rev |-> revision, generation |-> message.generation,
                   offset |-> cursor'])
          /\ revision' = revision /\ requests' = requests
      BY <1>12, <2>2 DEF TakeChunk
    <3>2. PICK m : m = [type |-> "ack", rev |-> revision, generation |-> message.generation,
                        offset |-> cursor']
      OBVIOUS
    <3>3. message \in ChunkMessage /\ message.rev = revision
      BY <1>5, <1>12, ChunksAre DEF OutOfDate
    <3>4. message.generation \in Nat /\ cursor' \in Lengths
      <4>1. cursor' \in Lengths
        BY DeliverKeeps DEF ReadInv, StoreTyped
      <4> QED
        BY <3>3, <4>1 DEF ChunkMessage
    <3>5. m \in ServerMessage /\ m.type = "ack" /\ m.rev = revision
      BY <1>3, <3>2, <3>4 DEF ServerMessage, AckMessage
    <3>6. Send(m)
      BY <3>1, <3>2
    <3>7. window'.generation = window.generation
      <4>1. PICK b : b = window.bytes \o message.bytes
        OBVIOUS
      <4>2. [window EXCEPT !.bytes = @ \o message.bytes] = [window EXCEPT !.bytes = b]
        BY <4>1, Zenon
      <4> QED
        BY <1>3, <3>1, <4>2, TrimsOnly
    <3>8. Head(toClient[socket]) \in BlockOf(revision)
      BY <1>1, <1>5, <1>12, <3>3 DEF BlockOf
    <3>9. toClient'[socket] = Tail(toClient[socket]) /\ link' = link /\ Takes
      BY <1>2, <1>3, <1>4, <1>6, <1>12
    <3> QED
      BY <1>2, <1>3, <3>1, <3>5, <3>6, <3>7, <3>8, <3>9, AckFlies
  <2> QED
    BY <2>1, <2>2
<1> QED
  BY <1>1, <1>9, <1>10, <1>11, <1>12

\* The end of a connection and the user's clicks.
LEMMA ClickFlies ==
  ASSUME ReadInv, FlightInv, OnClose \/ UserSelect \/ Older \/ SetFollowing,
         UNCHANGED <<diskVars, rootVars, dataVars, cancel, flow, job>>
  PROVE  FlightInv'
<1>1. /\ requests \in Seq(Requests) /\ revision \in Nat /\ window \in Windows
      /\ toClient \in [Flows -> Seq(ClientMessage)] /\ link \in [Flows -> {"none", "open", "cut"}]
      /\ UNCHANGED <<selection, ack, cancel, flow, job>>
  BY DEF ReadInv, ServerTyped, StoreTyped, dataVars
<1>2. /\ \A n \in DOMAIN requests : requests[n].rev <= revision
      /\ \A c \in Flows : link[c] = "open" => socket = c
      /\ Fewer(requests, requests, SnapshotOf(revision))
  BY DEF FlightInv, FlowsSound, RevisionsSound, Fewer
<1>3. CASE OnClose
  <2>1. /\ socket # 0 /\ link[socket] = "cut" /\ toClient' = [toClient EXCEPT ![socket] = <<>>]
        /\ UNCHANGED <<toServer, link, revision, window, requests>>
    BY <1>3 DEF OnClose
  <2>2. \A c \in Flows : toClient'[c] \in {toClient[c], <<>>} /\ link'[c] = link[c] /\ link'[c] # "open"
    BY <1>1, <1>2, <2>1
  <2>3. Takes
    BY <1>1, <2>2, TakesInOrder
  <2> QED
    BY <1>2, <2>1, <2>3, IdleFlies
<1>4. ASSUME toClient' = toClient, link' = link, socket' = socket PROVE Takes
  BY <1>1, <1>2, <1>4, TakesInOrder
<1>5. CASE UserSelect
  <2>1. Select(requests) /\ Takes
    BY <1>4, <1>5 DEF UserSelect
  <2> QED
    BY <1>1, <1>2, <2>1, SelectFlies
<1>6. CASE Older
  <2>1. /\ requests' = Append(requests, Request("older", revision, window))
        /\ UNCHANGED <<toServer, toClient, link, socket, revision, window>>
    BY <1>6 DEF Older
  <2>2. PICK q : q = Request("older", revision, window)
    OBVIOUS
  <2>3. q \in Requests /\ q.kind = "older" /\ q.rev = revision
    <3>1. q = [kind |-> "older", rev |-> revision, before |-> window.start,
               generation |-> window.generation, reply |-> NoReply]
      BY <2>2 DEF Request
    <3>2. window.start \in Lengths /\ window.generation \in Nat
      BY <1>1 DEF Windows
    <3>3. NoReply \in Replies
      BY EmptySound
    <3> QED
      BY <1>1, <3>1, <3>2, <3>3 DEF Requests
  <2>4. requests' = Append(requests, q)
    BY <2>1, <2>2
  <2>5. Fewer(requests, requests', SnapshotOf(revision))
    <3>1. q \notin SnapshotOf(revision)
      BY <2>3 DEF SnapshotOf
    <3> QED
      BY <1>1, <2>3, <2>4, <3>1, QueueLonger
  <2>6. \A n \in DOMAIN requests' : requests'[n].rev <= revision
    <3>1. \A n \in DOMAIN Append(requests, q) :
             Append(requests, q)[n] = q \/ \E k \in DOMAIN requests : Append(requests, q)[n] = requests[k]
      BY <1>1, <2>3, QueueIs
    <3> QED
      BY <1>1, <1>2, <2>3, <2>4, <3>1
  <2> QED
    BY <1>4, <2>1, <2>5, <2>6, IdleFlies
<1>7. CASE SetFollowing
  <2>1. UNCHANGED <<toServer, toClient, link, socket, revision, window, requests>>
    BY <1>7 DEF SetFollowing
  <2> QED
    BY <1>2, <1>4, <2>1, IdleFlies
<1> QED
  BY <1>3, <1>5, <1>6, <1>7

\* A read over HTTP only changes the reply of the request it answers.
LEMMA HttpFlies ==
  ASSUME ReadInv, FlightInv, HttpStep PROVE FlightInv'
<1>1. /\ UNCHANGED <<selection, ack, cancel, flow, toServer, toClient, link, socket, revision, window>>
      /\ ContentOpen \/ ContentCompare \/ ContentRecord \/ ContentRead \/ ContentBusy
  BY DEF HttpStep, dataVars, viewVars
<1>2. /\ job'.kind = "poll" => job' = job
      /\ requests' = requests \/ \E reply : Answer(reply)
  <2>1. job \in JobFields
    BY DEF ReadInv, ServerTyped, Jobs
  <2>2. CASE ContentOpen
    BY <2>2 DEF ContentOpen, Open, NoJob
  <2>3. CASE ContentCompare
    <3>1. PICK changed : job' = [job EXCEPT !.step = "compared", !.changed = changed]
      BY <2>3 DEF ContentCompare, Compare
    <3>2. job.kind = "content" /\ requests' = requests
      BY <2>3 DEF ContentCompare, Compare
    <3> QED
      BY <2>1, <3>1, <3>2 DEF JobFields
  <2>4. CASE ContentRecord
    <3>1. job.kind = "content" /\ (requests' = requests \/ \E reply : Answer(reply))
      BY <2>4 DEF ContentRecord
    <3>2. job' = NoJob \/ \E start, end : Lock(start, end)
      BY <2>4 DEF ContentRecord
    <3>3. job'.kind # "poll"
      <4>1. NoJob.kind # "poll"
        BY DEF NoJob
      <4>2. ASSUME NEW start, NEW end, Lock(start, end) PROVE job'.kind = "content"
        BY <2>1, <3>1, <4>2 DEF Lock, JobFields
      <4> QED
        BY <3>2, <4>1, <4>2
    <3> QED
      BY <3>1, <3>3
  <2>5. CASE ContentRead
    BY <2>5 DEF ContentRead, NoJob
  <2>6. CASE ContentBusy
    BY <2>6 DEF ContentBusy
  <2> QED
    BY <1>1, <2>2, <2>3, <2>4, <2>5, <2>6
<1>3. Takes
  <2>1. \A c \in Flows : link[c] = "open" => socket = c
    BY DEF FlightInv, FlowsSound
  <2> QED
    BY <1>1, <1>2, <2>1, TakesInOrder
<1>4. requests \in Seq(Requests) /\ requests' \in Seq(Requests)
  BY HttpKeeps DEF ReadInv, StoreTyped
<1>5. /\ DOMAIN requests' = DOMAIN requests
      /\ \A n \in DOMAIN requests : /\ requests'[n].kind = requests[n].kind
                                    /\ requests'[n].rev = requests[n].rev
  <2>1. CASE requests' = requests
    BY <2>1
  <2>2. ASSUME NEW reply, Answer(reply)
        PROVE  /\ DOMAIN requests' = DOMAIN requests
               /\ \A n \in DOMAIN requests : /\ requests'[n].kind = requests[n].kind
                                             /\ requests'[n].rev = requests[n].rev
    <3>1. requests' = [requests EXCEPT ![1] = [requests[1] EXCEPT !.reply = reply]]
      BY <2>2, Zenon DEF Answer
    <3>2. DOMAIN requests' = DOMAIN requests
      BY <3>1
    <3>3. ASSUME NEW n \in DOMAIN requests
          PROVE  requests'[n].kind = requests[n].kind /\ requests'[n].rev = requests[n].rev
      <4>1. CASE n # 1
        BY <3>1, <4>1
      <4>2. CASE n = 1
        <5>1. requests'[n] = [requests[1] EXCEPT !.reply = reply] /\ requests[1] \in Requests
          BY <1>4, <3>1, <4>2
        <5> QED
          BY <4>2, <5>1 DEF Requests
      <4> QED
        BY <4>1, <4>2
    <3> QED
      BY <3>2, <3>3
  <2> QED
    BY <1>2, <2>1, <2>2
<1>6. \A n \in DOMAIN requests' : requests'[n].rev <= revision
  BY <1>5 DEF FlightInv, RevisionsSound
<1>7. Fewer(requests, requests', SnapshotOf(revision))
  <2>1. \A n \in DOMAIN requests :
           requests'[n] \in SnapshotOf(revision) <=> requests[n] \in SnapshotOf(revision)
    BY <1>4, <1>5 DEF SnapshotOf
  <2> QED
    BY <1>5, <2>1 DEF Fewer, None, AtMostOne
<1> QED
  BY <1>1, <1>3, <1>6, <1>7, IdleFlies


\* A connection opens when the flow of the last one has ended.
LEMMA ConnectFlies ==
  ASSUME ReadInv, FlightInv, ~Overlap, NEW c \in Flows, Connect(c),
         UNCHANGED <<dataVars, cancel, job, requests>>
  PROVE  FlightInv'
<1>1. /\ socket = 0 /\ flow[c].pc = "none" /\ \A d \in 1..(c - 1) : flow[d].pc = "done"
      /\ socket' = c /\ link' = [link EXCEPT ![c] = "open"] /\ Goto(c, "starting")
      /\ toServer' = [toServer EXCEPT ![c] = OnOpen]
      /\ UNCHANGED <<toClient, revision, cursor, window, selection, ack, cancel, job, requests>>
  BY DEF Connect, Ended, dataVars
<1>2. /\ toServer \in [Flows -> Seq(ServerMessage)] /\ toClient \in [Flows -> Seq(ClientMessage)]
      /\ link \in [Flows -> {"none", "open", "cut"}] /\ window \in Windows /\ cursor \in Lengths
      /\ revision \in Nat
  BY DEF ReadInv, ServerTyped, StoreTyped
<1>3. /\ link'[c] = "open" /\ \A d \in Flows \ {c} : link'[d] = link[d]
      /\ toServer'[c] = OnOpen /\ \A d \in Flows \ {c} : toServer'[d] = toServer[d]
  BY <1>1, <1>2
<1>4. /\ flow'[c].pc = "starting" /\ \A d \in Flows \ {c} : flow'[d] = flow[d]
  <2>1. "starting" \in Where
    BY DEF Where
  <2> QED
    BY <1>1, <2>1, GotoIs DEF ReadInv
<1>5. \A d \in Flows \ {c} : flow[d].pc = IF d < c THEN "done" ELSE "none"
  <2>1. ASSUME NEW d \in Flows \ {c}, d < c PROVE flow[d].pc = "done"
    <3>1. d \in 1..(c - 1)
      BY <2>1 DEF Flows
    <3> QED
      BY <1>1, <3>1
  <2>2. ASSUME NEW d \in Flows \ {c}, ~(d < c) PROVE flow[d].pc = "none"
    <3>1. c < d
      BY <2>2 DEF Flows
    <3> QED
      BY <1>1, <3>1 DEF FlightInv, FlowsSound
  <2> QED
    BY <2>1, <2>2
<1>6. \A d \in Flows : flow[d].pc \notin Serving
  BY <1>1, <1>5 DEF Serving
<1>7. selection = NoSelection /\ job.kind # "poll"
  BY <1>6 DEF FlightInv, FlowsSound, Serving
<1>8. \A d \in Flows \ {c} : link[d] # "open"
  BY <1>1 DEF FlightInv, FlowsSound, Flows
<1>9. FlowsSound'
  <2>1. ASSUME NEW a \in Flows, NEW b \in Flows, a < b, flow'[b].pc # "none"
        PROVE  flow'[a].pc = "done"
    <3>1. a # b /\ a \in Nat /\ b \in Nat /\ c \in Nat
      BY <2>1 DEF Flows
    <3>2. b = c \/ (b # c /\ b < c)
      BY <1>4, <1>5, <2>1, <3>1
    <3>3. a < c /\ a # c
      BY <2>1, <3>1, <3>2
    <3> QED
      BY <1>4, <1>5, <3>3
  <2>2. ASSUME NEW d \in Flows
        PROVE  /\ flow'[d].pc \in Serving => flow'[d].generation = cancel'
               /\ flow'[d].pc = "none" => toServer'[d] = <<>> /\ toClient'[d] = <<>>
               /\ flow'[d].pc = "none" <=> link'[d] = "none"
               /\ flow'[d].pc = "done" => link'[d] = "cut"
               /\ link'[d] = "open" => socket' = d
    <3>1. CASE d = c
      BY <1>1, <1>3, <1>4, <3>1 DEF Serving
    <3>2. CASE d # c
      BY <1>1, <1>3, <1>4, <1>6, <1>8, <3>2 DEF FlightInv, FlowsSound
    <3> QED
      BY <3>1, <3>2
  <2>3. selection' = NoSelection /\ job'.kind # "poll"
    BY <1>1, <1>7
  <2> QED
    BY <2>1, <2>2, <2>3 DEF FlowsSound
<1>10. PICK m \in ServerMessage : m = Subscription(window.generation, cursor) /\ m.type = "subscribe" /\ m.rev = revision
  <2>1. PICK m : m = Subscription(window.generation, cursor)
    OBVIOUS
  <2>2. m = [type |-> "subscribe", rev |-> revision, generation |-> window.generation, offset |-> cursor]
    BY <2>1 DEF Subscription
  <2>3. window.generation \in Nat
    BY <1>2 DEF Windows
  <2>4. m \in ServerMessage /\ m.type = "subscribe" /\ m.rev = revision
    BY <1>2, <2>2, <2>3 DEF ServerMessage, SubscribeMessage
  <2> QED
    BY <2>1, <2>4
<1>11. (window.generation = 0 /\ OnOpen = <<>>) \/ (window.generation # 0 /\ OnOpen = <<m>>)
  BY <1>10 DEF OnOpen
<1>12. RevisionsSound'
  <2>1. ASSUME NEW d \in Flows
        PROVE  /\ \A n \in DOMAIN toServer'[d] :
                     toServer'[d][n].type \in {"subscribe", "ack"} => toServer'[d][n].rev <= revision'
               /\ \A n \in DOMAIN toClient'[d] :
                     toClient'[d][n].type = "chunk" => toClient'[d][n].rev <= revision'
    <3>1. CASE d # c
      BY <1>1, <1>3, <3>1 DEF FlightInv, RevisionsSound
    <3>2. CASE d = c
      <4>1. \A n \in DOMAIN OnOpen : OnOpen[n] = m
        BY <1>11
      <4>2. \A n \in DOMAIN toServer'[d] : toServer'[d][n].rev <= revision'
        BY <1>1, <1>2, <1>3, <1>10, <3>2, <4>1
      <4> QED
        BY <1>1, <4>2 DEF FlightInv, RevisionsSound
    <3> QED
      BY <3>1, <3>2
  <2>2. /\ selection'.rev <= revision' /\ \A n \in DOMAIN requests' : requests'[n].rev <= revision'
    BY <1>1 DEF FlightInv, RevisionsSound
  <2>3. /\ AtMostOne(requests, SnapshotOf(revision))'
        /\ (~None(requests, SnapshotOf(revision)) => window.generation = 0)'
    BY <1>1 DEF FlightInv, RevisionsSound, None, AtMostOne, SnapshotOf
  <2> QED
    BY <2>1, <2>2, <2>3 DEF RevisionsSound
<1>13. ASSUME NEW d \in Flows, NEW rev \in Nat \ {0} PROVE InFlight(d, rev)'
  <2>1. CASE d # c
    <3>1. Calmer(d, rev)
      BY <1>1, <1>3, <1>8, <2>1 DEF Calmer, Fewer
    <3> QED
      BY <3>1, CalmerFlies DEF FlightInv
  <2>2. CASE d = c
    <3>1. toClient'[d] = <<>>
      BY <1>1, <2>2 DEF FlightInv, FlowsSound
    <3>2. None(toClient'[d], BlockOf(rev)) /\ None(toServer'[d], AckOf(rev))
      BY <1>3, <1>10, <1>11, <2>2, <3>1 DEF None, AckOf
    <3>3. AtMostOne(toServer'[d], SubscribeOf(rev))
      BY <1>3, <1>11, <2>2 DEF AtMostOne
    <3>4. selection'.rev # rev
      BY <1>1, <1>7 DEF NoSelection
    <3>5. ~None(requests', SnapshotOf(rev)) /\ rev = revision' => None(toServer'[d], SubscribeOf(rev))
      <4>1. SUFFICES ASSUME ~None(requests', SnapshotOf(rev)), rev = revision'
                     PROVE  None(toServer'[d], SubscribeOf(rev))
        OBVIOUS
      <4>2. window.generation = 0
        BY <1>1, <4>1 DEF FlightInv, RevisionsSound
      <4> QED
        BY <1>3, <1>11, <2>2, <4>2 DEF None
    <3> QED
      BY <3>2, <3>3, <3>4, <3>5, NoneOnce, Zenon DEF InFlight, Silent
  <2> QED
    BY <2>1, <2>2
<1> QED
  BY <1>9, <1>12, <1>13 DEF FlightInv

\* A connection that is cut loses no more than what is on it.
LEMMA CutFlies ==
  ASSUME ReadInv, FlightInv, NEW c \in Flows, Cut(c), UNCHANGED <<dataVars, cancel, job, requests>>
  PROVE  FlightInv'
<1>1. /\ link[c] = "open" /\ link' = [link EXCEPT ![c] = "cut"]
      /\ UNCHANGED <<flow, toServer, toClient, socket, revision, window, selection, ack, cancel, job, requests>>
  BY DEF Cut, viewVars, dataVars
<1>2. \A d \in Flows : link'[d] = IF d = c THEN "cut" ELSE link[d]
  BY <1>1 DEF ReadInv, ServerTyped
<1>3. Takes
  <2>1. \A d \in Flows : /\ link'[d] = link[d] \/ (link[d] = "open" /\ link'[d] = "cut")
                         /\ link'[d] = "open" => socket' = d
    BY <1>1, <1>2 DEF FlightInv, FlowsSound
  <2> QED
    BY <1>1, <2>1, TakesInOrder
<1>4. /\ \A n \in DOMAIN requests' : requests'[n].rev <= revision
      /\ Fewer(requests, requests', SnapshotOf(revision))
  BY <1>1 DEF FlightInv, RevisionsSound, Fewer
<1> QED
  BY <1>1, <1>3, <1>4, IdleFlies

\* At first nothing is on its way.
LEMMA InitFlight == Init => FlightInv
<1> SUFFICES ASSUME Init PROVE FlightInv
  OBVIOUS
<1>1. /\ selection = NoSelection /\ cancel = 0 /\ job = NoJob
      /\ flow = [c \in Flows |-> [pc |-> "none", generation |-> 0]]
      /\ toServer = [c \in Flows |-> <<>>] /\ toClient = [c \in Flows |-> <<>>]
      /\ link = [c \in Flows |-> "none"] /\ revision = 0 /\ requests = <<>>
  BY DEF Init
<1>2. FlowsSound
  BY <1>1 DEF FlowsSound, Serving, NoJob
<1>3. RevisionsSound
  BY <1>1 DEF RevisionsSound, NoSelection, None, AtMostOne
<1>4. \A c \in Flows, rev \in Nat \ {0} : InFlight(c, rev)
  BY <1>1 DEF InFlight, None, AtMostOne
<1> QED
  BY <1>2, <1>3, <1>4 DEF FlightInv

\* Every step keeps one block at a time, when connections do not overlap.
LEMMA NextFlight ==
  ASSUME ~Overlap PROVE ReadInv /\ FlightInv /\ [Next]_vars => FlightInv'
<1> SUFFICES ASSUME ReadInv, FlightInv, [Next]_vars PROVE FlightInv'
  OBVIOUS
<1>1. ASSUME UNCHANGED <<selection, ack, cancel, flow, job, toServer, toClient, link, socket, revision, window, requests>>
      PROVE  FlightInv'
  <2>1. Takes
    <3>1. \A c \in Flows : link[c] = "open" => socket = c
      BY DEF FlightInv, FlowsSound
    <3> QED
      BY <1>1, <3>1, TakesInOrder
  <2>2. /\ \A n \in DOMAIN requests' : requests'[n].rev <= revision
        /\ Fewer(requests, requests', SnapshotOf(revision))
    BY <1>1 DEF FlightInv, RevisionsSound, Fewer
  <2> QED
    BY <1>1, <2>1, <2>2, IdleFlies
<1>2. CASE FileStep
  BY <1>1, <1>2 DEF FileStep, dataVars, viewVars
<1>3. ASSUME NEW c \in Flows, FlowStep(c) PROVE FlightInv'
  BY <1>3, FlowFlies
<1>4. CASE HttpStep
  BY <1>4, HttpFlies
<1>5. CASE StoreStep
  BY <1>5, RespondFlies, DeliverFlies, ClickFlies DEF StoreStep
<1>6. CASE LinkStep
  BY <1>6, ConnectFlies, CutFlies DEF LinkStep
<1>7. CASE UNCHANGED vars
  BY <1>1, <1>7 DEF vars, dataVars, viewVars
<1> QED
  BY <1>2, <1>3, <1>4, <1>5, <1>6, <1>7 DEF Next

\* A kind of which there is at most one has at most one place in its queue.
LEMMA OnePlace ==
  ASSUME NEW s, NEW T, NEW places, places \subseteq {n \in DOMAIN s : s[n] \in T}
  PROVE  /\ None(s, T) => places = {}
         /\ AtMostOne(s, T) => places = {} \/ \E n : places = {n}
BY DEF None, AtMostOne

\* While the browser connects again only once the old flow has ended, at most
\* one block of a selection is on its way and not acknowledged: neither
\* reselections, nor clicks, nor cuts let the server send a second one.
THEOREM BlockByBlock == ASSUME ~Overlap PROVE Spec => []OneUnacknowledged
<1>1. ReadInv /\ FlightInv => OneUnacknowledged
  <2> SUFFICES ASSUME ReadInv, FlightInv, NEW c \in Flows, NEW rev \in 1..revision
               PROVE  Cardinality(Blocks(c, rev)) + Cardinality(Acks(c, rev)) <= 1
    BY DEF OneUnacknowledged
  <2>1. rev \in Nat \ {0} /\ InFlight(c, rev)
    BY DEF FlightInv, ReadInv, StoreTyped
  <2>2. PICK s \in Seq(ClientMessage), t \in Seq(ServerMessage) : s = toClient[c] /\ t = toServer[c]
    BY DEF ReadInv, ServerTyped
  <2>3. /\ Blocks(c, rev) \subseteq {n \in DOMAIN s : s[n] \in BlockOf(rev)}
        /\ Acks(c, rev) \subseteq {n \in DOMAIN t : t[n] \in AckOf(rev)}
    BY <2>2 DEF Blocks, Acks, BlockOf, AckOf
  <2>4. PICK b, a : b = Blocks(c, rev) /\ a = Acks(c, rev)
    OBVIOUS
  <2>5. /\ AtMostOne(s, BlockOf(rev)) /\ AtMostOne(t, AckOf(rev))
        /\ None(s, BlockOf(rev)) \/ None(t, AckOf(rev))
    BY <2>1, <2>2 DEF InFlight
  <2>6. (None(s, BlockOf(rev)) => b = {}) /\ (b = {} \/ \E n : b = {n})
    BY <2>3, <2>4, <2>5, OnePlace
  <2>7. (None(t, AckOf(rev)) => a = {}) /\ (a = {} \/ \E n : a = {n})
    BY <2>3, <2>4, <2>5, OnePlace
  <2>8. (b = {} \/ a = {}) /\ (b = {} \/ \E n : b = {n}) /\ (a = {} \/ \E n : a = {n})
    BY <2>5, <2>6, <2>7
  <2>9. Cardinality({}) = 0 /\ \A n : Cardinality({n}) = 1
    BY FS_EmptySet, FS_Singleton
  <2>10. /\ Cardinality(b) \in {0, 1} /\ Cardinality(a) \in {0, 1}
         /\ Cardinality(b) = 0 \/ Cardinality(a) = 0
    BY <2>8, <2>9
  <2> QED
    BY <2>4, <2>10
<1>2. Spec => []FlightInv
  BY InitFlight, NextFlight, Reads, PTL DEF Spec
<1> QED
  BY <1>1, <1>2, Reads, PTL
=============================================================================
