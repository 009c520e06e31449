----------------------------- MODULE Misrecordings -----------------------------
(****************************************************************************)
(* Evidence with one wrong field: what the second and the third reading of  *)
(* a source are there to catch.                                             *)
(****************************************************************************)
EXTENDS ApplyOutcome

\* One recorded field differs from what the reader saw: a range, a name, a
\* kind, a size, the source of a value, a record, or a whole entry.
TarMisrecordings(e) ==
    LET n == Len(e.members)
        x == Len(e.extensions)
        elsewhere == [kind |-> "Global", extension |-> 0, record |-> 1]
    IN  {[e EXCEPT !.covering.terminator.offset = @ + BLOCK_LEN]}
        \cup (IF n = 0 THEN {} ELSE
              {[e EXCEPT !.members = Front(@)],
               [e EXCEPT !.members[n].name = <<"z">>],
               [e EXCEPT !.members[n].is_dir = ~@],
               [e EXCEPT !.members[n].size = @ + 1, !.members[n].tar.payload.len = @ + 1]})
        \cup (IF n = 0 \/ e.dialect = "ustar" THEN {} ELSE
              {[e EXCEPT !.members[n].raw_name = <<"z">>],
               [e EXCEPT !.members[n].path_source = FromHeader],
               [e EXCEPT !.members[n].path_source = elsewhere]})
        \cup (IF n = 0 \/ e.dialect # "pax" THEN {} ELSE
              {[e EXCEPT !.members[n].size_source = FromHeader],
               [e EXCEPT !.members[n].size_source = elsewhere]})
        \cup (IF x = 0 \/ e.dialect # "pax" THEN {} ELSE
              {[e EXCEPT !.extensions[x].kind = IF @ = "Local" THEN "Global" ELSE "Local"]})
        \cup (IF x = 0 THEN {} ELSE
              {[e EXCEPT !.extensions = Front(@)],
               [e EXCEPT !.extensions[x].records[1].value =
                    IF e.extensions[x].records[1].key = "size" THEN @ + 1 ELSE <<"z">>]})

\* The ranges and the fields of a member, also with the boundary between
\* header, payload and descriptor moved inside an unchanged record; the ZIP64
\* profile records more.
ZipMisrecordings(e) ==
    LET n == Len(e.members)
        is64 == e.profile = Zip64Profile
        m == e.members[n]
    IN  {[e EXCEPT !.covering.local_records.len = @ + 1],
         [e EXCEPT !.covering.comment.len = @ + 1]}
        \cup (IF e.covering.pair = << >> THEN {} ELSE {[e EXCEPT !.covering.pair = << >>]})
        \cup (IF n = 0 THEN {} ELSE
              {[e EXCEPT !.members = Front(@)],
               [e EXCEPT !.members[n].payload.len = @ + 1],
               [e EXCEPT !.members[n].local_header.len = @ + 1, !.members[n].payload.offset = @ + 1],
               [e EXCEPT !.members[n].local_header.len = @ + 1, !.members[n].payload.offset = @ + 1,
                         !.members[n].payload.len = @ - 1],
               [e EXCEPT !.members[n].payload.len = LocalEnd(m) - m.payload.offset,
                         !.members[n].descriptor = << >>],
               [e EXCEPT !.members[n].central_header.offset = @ + 1],
               [e EXCEPT !.members[n].descriptor =
                    IF @ = << >> THEN <<ByteRange(RangeEnd(m.payload), 4)>> ELSE << >>],
               [e EXCEPT !.members[n].name = <<"z">>],
               [e EXCEPT !.members[n].is_dir = ~@],
               [e EXCEPT !.members[n].method = 8 - @],
               [e EXCEPT !.members[n].flags = IF "utf8" \in @ THEN @ \ {"utf8"} ELSE @ \cup {"utf8"}],
               [e EXCEPT !.members[n].crc = @ + 1],
               [e EXCEPT !.members[n].comp_size = @ + 1],
               [e EXCEPT !.members[n].uncomp_size = @ + 1],
               [e EXCEPT !.members[n].extra_fields = << >>]})
        \cup (IF n = 0 \/ ~is64 THEN {} ELSE
              {[e EXCEPT !.members[n].zip64[1].central_version = @ + 1],
               [e EXCEPT !.members[n].zip64[1].mask = {1, 2, 3}],
               [e EXCEPT !.members[n].zip64[1].shape = "Exact"],
               [e EXCEPT !.members[n].zip64[1].central_sentinels = {}],
               [e EXCEPT !.members[n].zip64[1].width = <<"Zip32">>]})

SevenZMisrecordings(e) ==
    LET n == Len(e.members)
        k == Len(e.sevenz.folders)
    IN  {[e EXCEPT !.sevenz.pack_region.len = @ + 1], [e EXCEPT !.sevenz.next_header.offset = @ + 1],
         [e EXCEPT !.sevenz.version_minor = @ + 1], [e EXCEPT !.sevenz.dummy_bytes = @ + 1],
         [e EXCEPT !.sevenz.name_region_bytes = @ + 1],
         [e EXCEPT !.members = Front(@)], [e EXCEPT !.members[n].name = <<"z">>],
         [e EXCEPT !.members[n].is_dir = ~@], [e EXCEPT !.members[n].size = @ + 1],
         [e EXCEPT !.members[n].payload.offset = @ + 1],
         [e EXCEPT !.members[n].attributes = IF @ = "none" THEN "file" ELSE "none"],
         [e EXCEPT !.members[n].mtime = IF @ = "none" THEN "late" ELSE "none"],
         [e EXCEPT !.members[n].declared_crc = IF @ = "none" THEN "good" ELSE "none"]}
        \cup (IF k = 0 THEN {} ELSE
              {[e EXCEPT !.sevenz.folders = Front(@)],
               [e EXCEPT !.sevenz.folders[k].unpack_size = @ + 1],
               [e EXCEPT !.sevenz.folders[k].pack_stream.len = @ + 1],
               [e EXCEPT !.sevenz.folders[k].folder_crc = "bad"],
               [e EXCEPT !.sevenz.folders[1].substreams = Front(@)],
               [e EXCEPT !.sevenz.folders[1].substreams[1].payload.len = @ + 1],
               [e EXCEPT !.sevenz.folders[1].substreams[1].declared_crc = "other"]})

GzipMisrecordings(w) ==
    {[w EXCEPT !.flags = IF "name" \in @ THEN @ \ {"name"} ELSE @ \cup {"name"}],
     [w EXCEPT !.fixed = "other"], [w EXCEPT !.header.len = @ + 1],
     [w EXCEPT !.header.len = @ + 1, !.compressed_payload.offset = @ + 1,
               !.compressed_payload.len = @ - 1],
     [w EXCEPT !.compressed_payload.len = @ + 1], [w EXCEPT !.trailer.offset = @ - 1],
     [w EXCEPT !.extra_subfield_count = @ + 1], [w EXCEPT !.extra = << >>],
     [w EXCEPT !.original_name = << >>], [w EXCEPT !.comment = << >>],
     [w EXCEPT !.header_crc16 = << >>], [w EXCEPT !.declared_crc32 = "other"],
     [w EXCEPT !.declared_isize = @ + 1], [w EXCEPT !.derived_output_len = @ + U32Max + 1],
     [w EXCEPT !.derived_output_sha256 = "other"]}

ZstdMisrecordings(w) ==
    {[w EXCEPT !.descriptor[4] = (@ + 1) % 4], [w EXCEPT !.single_segment = ~@],
     [w EXCEPT !.checksum_flag = ~@], [w EXCEPT !.window_descriptor = IF @ = << >> THEN <<1>> ELSE << >>],
     [w EXCEPT !.window_size = @ + 1], [w EXCEPT !.frame_content_size = IF @ = << >> THEN <<1>> ELSE << >>],
     [w EXCEPT !.header.len = @ + 1, !.compressed_payload.offset = @ + 1,
               !.compressed_payload.len = @ - 1],
     [w EXCEPT !.compressed_payload.len = @ + 1], [w EXCEPT !.trailer.len = 4 - @],
     [w EXCEPT !.declared_checksum = IF @ = << >> THEN <<"sum">> ELSE << >>],
     [w EXCEPT !.derived_output_len = @ + 1], [w EXCEPT !.derived_output_sha256 = "other"]}

XzMisrecordings(w) ==
    LET n == Len(w.blocks)
    IN  {[w EXCEPT !.check_id = IF @ = "crc32" THEN "crc64" ELSE "crc32"], [w EXCEPT !.header.len = @ + 1],
         [w EXCEPT !.blocks = Front(@)], [w EXCEPT !.blocks[n].dict_size = @ - 1],
         [w EXCEPT !.blocks[n].dict_size = MAX_DICT_BYTES + 1],
         [w EXCEPT !.blocks[n].uncompressed_len = @ + 1], [w EXCEPT !.blocks[n].check_value = "other"],
         [w EXCEPT !.blocks[n].header.len = @ + 4],
         [w EXCEPT !.blocks[n].compressed.len = @ - 1, !.blocks[n].padding.offset = @ - 1,
                   !.blocks[n].padding.len = @ + 1],
         [w EXCEPT !.blocks[n].declared = IF @ = << >> THEN <<w.blocks[n].compressed.len,
                                                           w.blocks[n].uncompressed_len>> ELSE << >>],
         [w EXCEPT !.index.len = @ + 4], [w EXCEPT !.footer.offset = @ - 4],
         [w EXCEPT !.derived_output_len = @ + 1], [w EXCEPT !.derived_output_sha256 = "other"]}

Bzip2Misrecordings(w) ==
    LET n == Len(w.block_crcs)
    IN  {[w EXCEPT !.level = (@ % 9) + 1], [w EXCEPT !.header.len = @ + 1],
         [w EXCEPT !.payload_bits = @ - 1, !.padding_bits = @ + 1], [w EXCEPT !.payload_bits = @ + 1],
         [w EXCEPT !.block_bit_offsets = Front(@)], [w EXCEPT !.block_bit_offsets[n] = @ + 1],
         [w EXCEPT !.block_bit_offsets = Front(@), !.block_crcs = Front(@)],
         [w EXCEPT !.block_crcs[n] = "other"], [w EXCEPT !.combined_crc = <<"other">>],
         [w EXCEPT !.derived_output_len = @ + 1], [w EXCEPT !.derived_output_sha256 = "other"]}

WrapperMisrecordings(codec, w) ==
    CASE codec = "gzip" -> GzipMisrecordings(w) [] codec = "zstd" -> ZstdMisrecordings(w)
      [] codec = "xz" -> XzMisrecordings(w) [] codec = "bzip2" -> Bzip2Misrecordings(w)

ArchiveMisrecordings(j, e) ==
    CASE j.kind = "tar" -> TarMisrecordings(e) [] j.kind = "zip" -> ZipMisrecordings(e)
      [] j.kind = "7z" -> SevenZMisrecordings(e)

\* One field of the wrapper or of the archive inside it.
Misrecordings(j, e) ==
    {[e EXCEPT !.archive = a] : a \in ArchiveMisrecordings(j, e.archive)}
    \cup (IF j.codec = "none" THEN {}
          ELSE {[e EXCEPT !.wrapper = <<w>>] : w \in WrapperMisrecordings(j.codec, e.wrapper[1])})

================================================================================
