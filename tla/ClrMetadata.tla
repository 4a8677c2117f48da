----------------------------- MODULE ClrMetadata -----------------------------
(***************************************************************************)
(* The metadata of a managed PE image:                                     *)
(*   senbei-engine/src/windows/integrity/clr.rs                            *)
(* image.clr is the blob: where it lies, how long it is declared, and the  *)
(* values of its root, its stream headers and its tables stream.           *)
(***************************************************************************)
EXTENDS Directories

CONSTANTS MaxStreams, MaxStreamName

Blob == image.clr

\* The part of the blob the file holds.
BlobLength == Smaller(Blob.size, image.length - FileRange(Blob.rva, 4))

InBlob(offset, size) == offset + size <= BlobLength

Aligned(n) == ((n + 3) \div 4) * 4

FlagsAt == Aligned(16 + Blob.version)

\* Streams follow one another: offset and size, then the padded name with its NUL.
StreamAt(k) ==
  FlagsAt + 4 + Running([j \in DOMAIN Blob.streams |-> 8 + Aligned(Blob.streams[j].length + 1)])[k - 1]

\* The NUL of the name lies in the blob and in the window.
NameEnds(k) ==
  LET s == Blob.streams[k] IN
  s.length < MaxStreamName /\ InBlob(StreamAt(k) + 8, s.length + 1)

BadStream(k) ==
  LET s == Blob.streams[k] IN
  (IF s.name = "" THEN <<<<"stream name", k>>>> ELSE <<>>)
    \o (IF s.offset + s.size < Word /\ InBlob(s.offset, s.size) THEN <<>>
        ELSE <<<<"stream", k, "past the blob">>>>)

\* The root can be read as far as its streams.
RootDefect ==
  IF FileRange(Blob.rva, 4) + 16 > image.length THEN <<"root", "truncated">>
  ELSE IF 16 + Blob.version + 3 >= Word THEN <<"version", "overflows">>
  ELSE IF ~ InBlob(FlagsAt, 4) THEN <<"version", "past the blob">>
  ELSE IF Blob.count > MaxStreams THEN <<"streams", "too many">>
  ELSE <<>>

\* Streams that can be read: the walk ends at the first that cannot.
Readable ==
  LET broken == {k \in 1..Blob.count : ~ InBlob(StreamAt(k), 8) \/ ~ NameEnds(k)}
  IN IF broken = {} THEN Blob.count ELSE Least(broken) - 1

Named(name) == {k \in 1..Readable : Blob.streams[k].name = name}

\* "#~" rather than "#-", the first of them.
TablesStream ==
  IF Named("#~") # {} THEN Blob.streams[Least(Named("#~"))] ELSE Blob.streams[Least(Named("#-"))]

\* The header and the row counts of the tables stream.
BadTables(s) ==
  LET t == Blob.tables
      note(bad, what) == IF bad THEN <<<<"tables", what>>>> ELSE <<>>
  IN IF ~ InBlob(s.offset, 24) THEN <<<<"tables", "no header">>>>
     ELSE note(t.reserved # 0, "reserved") \o note(t.major # 2, "major")
            \o note(t.heaps >= 8, "heap flags") \o note(t.rows = 0, "none")
            \o note(t.undefined, "undefined bits")
            \o note(~ InBlob(s.offset + 24, 4 * t.rows), "rows past the blob")
            \o note(s.size < 24 + 4 * t.rows, "stream too small")

Missing(name) == IF Named(name) = {} THEN <<<<"no heap", name>>>> ELSE <<>>

\* All the messages of the metadata, in the order they are found.
MetadataDefects ==
  LET unreadable == <<"stream", Readable + 1, IF InBlob(StreamAt(Readable + 1), 8) THEN "name" ELSE "header">>
      streams == FlattenSeq([k \in 1..Readable |-> BadStream(k)])
      heaps == Missing("#Strings") \o Missing("#GUID") \o Missing("#Blob")
  IN IF ~ Blob.signed \/ ~ InBlob(0, 4) THEN <<>>
     ELSE IF RootDefect # <<>> THEN <<RootDefect>>
     ELSE IF Readable < Blob.count THEN Append(streams, unreadable)
     ELSE IF Named("#~") \cup Named("#-") = {} THEN Append(streams, <<"streams", "no tables">>)
     ELSE streams \o heaps \o BadTables(TablesStream)

\* Nothing is looked at where the header of the runtime or the blob has no file bytes.
Metadata ==
  /\ table = "metadata"
  /\ LET header == Dir("clr").rva
         found == header # 0 /\ Backed(header, 16) /\ Blob.rva # 0 /\ Backed(Blob.rva, 4)
     IN Finish(IF found THEN Push(sink, MetadataDefects) ELSE sink, "done")
===============================================================================
