----------------------------- MODULE MCBlocks ------------------------------
(* The workloads that Blocks is checked with.                              *)
EXTENDS Blocks

Options(codec, framed, domain, skew, step) ==
    [codec |-> codec, framed |-> framed, domain |-> domain,
     skew |-> skew, step |-> step]

\* Every block of up to 13 bytes over two symbols, for each codec, in a
\* partition with room for one block.
Opaque(codec) ==
    [options |-> {Options(codec, FALSE, 1, -1, -1)},
     records |-> {[time |-> 0, selector |-> 0, flags |-> 0, payload |-> <<byte>>] :
                     byte \in {0, 1}},
     max_block_payload |-> 13, region |-> 16, index_cap |-> 1,
     max_records |-> 13, max_blocks |-> 1, max_parts |-> 1, max_sessions |-> 1,
     ranges |-> {}, selectors |-> {}, limits |-> {}]

\* Framed records with the extreme times and two selectors, in two time
\* domains with different codecs and thresholds.
Framed ==
    [options |-> {Options("packbits", TRUE, 1, 2, 6),
                  Options("lz4_block", TRUE, 2, 1, -1)},
     records |-> {[time |-> -4, selector |-> 1, flags |-> 0, payload |-> <<>>],
                  [time |-> -1, selector |-> 2, flags |-> 0, payload |-> <<>>],
                  [time |-> 0, selector |-> 1, flags |-> 1, payload |-> <<1, 1>>],
                  [time |-> 3, selector |-> 2, flags |-> 0, payload |-> <<>>]},
     max_block_payload |-> 17, region |-> 44, index_cap |-> 2,
     max_records |-> 3, max_blocks |-> 3, max_parts |-> 3, max_sessions |-> 2,
     ranges |-> {[domain |-> 1, begin |-> -4, end |-> -1],
                 [domain |-> 1, begin |-> -1, end |-> 3],
                 [domain |-> 2, begin |-> 0, end |-> 4]},
     selectors |-> {{}, {1}}, limits |-> {1, 9}]

MCWorkloads == {Opaque("packbits"), Opaque("lz4_block"), Framed}
=============================================================================
