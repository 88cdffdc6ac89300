----------------------------- MODULE IndexFile ------------------------------
(***************************************************************************)
(* The bytes of an index and of an archive of indices: what Index::write   *)
(* and IndexArchiveBuilder::write (libindexdb) put at which offset of a    *)
(* file, and what Index::init and IndexArchiveReader find there.           *)
(*                                                                         *)
(* Abstracted: the bytes of one item (a number, a string, a buffer) are a  *)
(* cell of its size, found at the offset where it starts and nowhere else. *)
(* Strings and paths are numbers, and as many bytes long.  Offsets do not  *)
(* reach 2^32, where the code would cut them.                              *)
(***************************************************************************)
EXTENDS IndexDb, Integers

kMaxAlign == 8

Aligned(offset, multiple) == ((offset + multiple - 1) \div multiple) * multiple

(* snappy: some size that is not that of the data.                         *)
CompressedSize(size) == size \div 2 + 3

(* Reader::align and Writer::align with what they precede: the offset of   *)
(* an item at a position: of a number, of the characters of a string (its  *)
(* size is in front), of the data of a buffer (a flag and its size are).   *)
OffsetOf(kind, pos) ==
    CASE kind = "data"       -> pos
      [] kind = "uint32"     -> Aligned(pos, 4)
      [] kind = "string"     -> Aligned(pos, 4) + 4
      [] kind = "compressed" -> Aligned(pos + 1, 4) + 4
      [] kind = "buffer"     -> Aligned(Aligned(pos + 1, 4) + 4, kMaxAlign)

-----------------------------------------------------------------------------
(* WRITING.  What is written is a sequence of items.                       *)
Item(kind, size, value) == <<[kind |-> kind, size |-> size, value |-> value]>>
WriteUInt32(n) == Item("uint32", 4, n)
WriteString(string, size) == Item("string", size, string)
WriteSignature(signature) == Item("data", Len(signature), signature)

WriteBuffer(content, size, compressed) ==
    IF compressed THEN Item("compressed", CompressedSize(size), content)
                  ELSE Item("buffer", size, content)

(* StringTable::write: the strings, each with a NUL, and what finds them.  *)
WriteStringTable(strings, compressed) ==
    LET length[i \in 0 .. Len(strings)] == IF i = 0 THEN 0 ELSE length[i - 1] + strings[i] + 1
    IN WriteBuffer(strings, length[Len(strings)], compressed)
       \o WriteBuffer("m_table", 16 * Len(strings), compressed)
       \o WriteBuffer("m_index", 32, compressed)

(* Table::write: each row has a NUL, and there is one in front.            *)
WriteTable(t, rows, compressed) ==
    WriteUInt32(Len(rows)) \o WriteUInt32(Len(Columns[t]))
    \o FlattenSeq([c \in DOMAIN Columns[t] |-> WriteString(Columns[t][c], Len(Columns[t][c]))])
    \o WriteBuffer(rows, 1 + Len(rows) * (Len(Columns[t]) + 1), compressed)

(* Index::write; SetToSeq is the order of the std::maps.                   *)
WriteIndex(ix, compressed) ==
    LET names == SetToSeq(StringTableName)
        tables == SetToSeq(DOMAIN ix.rows)
    IN WriteSignature("IDX")
       \o WriteUInt32(Len(names))
       \o FlattenSeq([i \in DOMAIN names |->
              WriteString(names[i], Len(names[i]))
              \o WriteStringTable(ix.strings[names[i]], compressed)])
       \o WriteUInt32(Len(tables))
       \o FlattenSeq([i \in DOMAIN tables |->
              WriteString(tables[i], Len(tables[i]))
              \o WriteTable(tables[i], ix.rows[tables[i]], compressed)])

(* Writer::writeData: a file is the sequence of its items at their offsets. *)
(* These follow the offset `from`.                                         *)
Place(from, items) ==
    LET end[i \in 0 .. Len(items)] ==
            IF i = 0 THEN from ELSE OffsetOf(items[i].kind, end[i - 1]) + items[i].size
    IN [i \in DOMAIN items |->
           [kind |-> items[i].kind, size |-> items[i].size, value |-> items[i].value,
            at |-> end[i] - items[i].size]]

End(cells) == Last(cells).at + Last(cells).size

(* SHA-256 of what follows an offset: collision free.                      *)
Hash(from, cells) == [i \in DOMAIN cells |-> [cells[i] EXCEPT !.at = @ - from]]

(* Mutant: the padding in front of an entry is hashed with it. *)
Entry_early(after, index) ==
    LET offset == Aligned(after, kMaxAlign)
        cells == Place(offset, WriteIndex(index, TRUE))
    IN [offset |-> offset, length |-> End(cells) - offset, hash |-> Hash(after, cells),
        cells |-> cells]

(* One round of the second loop of IndexArchiveBuilder::write.             *)
Entry(after, index) ==
    LET offset == Aligned(after, kMaxAlign)
        cells == Place(offset, WriteIndex(index, TRUE))
    IN [offset |-> offset, length |-> End(cells) - offset, hash |-> Hash(offset, cells),
        cells |-> cells]

(* IndexArchiveBuilder::write, of finalized indices by path: room for the  *)
(* table of contents, the entries, and the table in its place.             *)
WriteArchive(indices) ==
    LET paths == Sorted(SetToSeq(DOMAIN indices), <)
        zero == [hash |-> "zeroHash", offset |-> 0, length |-> 0]
        toc(ofEntry) ==
            Place(0, WriteSignature("IAR") \o WriteUInt32(Len(paths)) \o
                FlattenSeq([i \in DOMAIN paths |->
                    WriteString(paths[i], paths[i]) \o WriteString(ofEntry[i].hash, 32)
                    \o WriteUInt32(ofEntry[i].offset) \o WriteUInt32(ofEntry[i].length)]))
        from == End(toc([i \in DOMAIN paths |-> zero]))
        entries[n \in 0 .. Len(paths)] ==
            IF n = 0 THEN <<>>
            ELSE LET before == entries[n - 1]
                 IN Append(before, Entry(IF n = 1 THEN from ELSE End(Last(before).cells),
                                         indices[paths[n]]))
        all == entries[Len(paths)]
    IN toc(all) \o FlattenSeq([i \in DOMAIN all |-> all[i].cells])
-----------------------------------------------------------------------------
(* READING.  A reader sees `size` bytes of a file from an offset on, counts*)
(* from there, and has read `value` last, which was the item before `next`.*)
(* A read that starts elsewhere than a write did, or ends outside, gets    *)
(* garbage.                                                                *)
MappedReader(file, offset, size) ==
    [file |-> file, base |-> offset, size |-> size, pos |-> 0, value |-> "nothing",
     next |-> CHOOSE i \in DOMAIN file : file[i].at = offset]

UnmappedReader(file) == MappedReader(file, 0, End(file))

(* Reader::align and readData.                                             *)
Read(r, kinds) ==
    LET item == r.file[r.next]
        at == OffsetOf(item.kind, r.pos)
        pos == at + item.size
    IN [r EXCEPT !.pos = pos, !.next = @ + 1,
                 !.value = IF item.kind \in kinds /\ item.at = r.base + at /\ pos <= r.size
                           THEN item.value ELSE "garbage"]

ReadSignature(r) == Read(r, {"data"})
ReadUInt32(r) == Read(r, {"uint32"})
ReadString(r) == Read(r, {"string"})
ReadBuffer(r) == Read(r, {"compressed", "buffer"})

(* StringTable::StringTable(Reader &)                                      *)
ReadStringTable(r) ==
    LET data == ReadBuffer(r)
        table == ReadBuffer(data)
    IN [ReadBuffer(table) EXCEPT !.value = data.value]

(* Table::Table(Index *, Reader &)                                         *)
ReadTable(r) ==
    LET columns == ReadUInt32(ReadUInt32(r))
        name[i \in 0 .. columns.value] == IF i = 0 THEN columns ELSE ReadString(name[i - 1])
    IN ReadBuffer(name[columns.value])

(* What was read by name, and the reader after it.                         *)
ByName(all) ==
    [reader |-> all.reader,
     map |-> [name \in ToSet(all.names) |->
                 all.contents[CHOOSE i \in DOMAIN all.names : all.names[i] = name]]]

(* A round of a loop of Index::init: a name was read, then its content.    *)
WithNamed(before, name, content) ==
    [reader |-> content, names |-> Append(before.names, name.value),
     contents |-> Append(before.contents, content.value)]

(* A loop of Index::init, over string tables or over tables.               *)
ReadNamed(r, what) ==
    LET count == ReadUInt32(r)
        read[i \in 0 .. count.value] ==
            IF i = 0 THEN [reader |-> count, names |-> <<>>, contents |-> <<>>]
            ELSE LET before == read[i - 1]
                     name == ReadString(before.reader)
                 IN WithNamed(before, name, IF what = "strings" THEN ReadStringTable(name)
                                                                ELSE ReadTable(name))
    IN ByName(read[count.value])

(* Index::init                                                             *)
FrozenIndex(strings, tables) ==
    [strings |-> strings, finalized |-> {}, rows |-> tables, readonly |-> DOMAIN tables]

ReadIndex(r) ==
    LET strings == ReadNamed(ReadSignature(r), "strings")
    IN FrozenIndex(strings.map, ReadNamed(strings.reader, "tables").map)

(* IndexArchiveReader::IndexArchiveReader, up to the end of its table of   *)
(* contents; openEntry.                                                    *)
ReadArchive(file) ==
    LET count == ReadUInt32(ReadSignature(UnmappedReader(file)))
        read[i \in 0 .. count.value] ==
            IF i = 0 THEN [reader |-> count, toc |-> <<>>]
            ELSE LET before == read[i - 1]
                     name == ReadString(before.reader)
                     hash == ReadString(name)
                     offset == ReadUInt32(hash)
                     length == ReadUInt32(offset)
                 IN [reader |-> length,
                     toc |-> Append(before.toc, [name |-> name.value, hash |-> hash.value,
                                 offset |-> offset.value, length |-> length.value])]
    IN read[count.value].toc

OpenEntry(file, entry) == ReadIndex(MappedReader(file, entry.offset, entry.length))
=============================================================================
