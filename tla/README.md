# Specifications of the block compressor

The repository is a compressor for TON blocks (`src/README.md`, `src/main.cpp`): a block, given as a
bag of cells in base64, becomes a smaller base64 string, from which the block is rebuilt. `main` does the
one and then the other in one process and compares; the branches that do one of them, for a program
that compresses in one run and decompresses in another, stand behind its `return`. Either end is
sequential. What is hard is not concurrency but agreement at a
distance: the decompressor sees only the string, and must arrive from it alone at the numbering, the
field boundaries and the cell under construction that the compressor had in front of it, while it is
still in the middle of reading them. A mistake shows as a block that differs, or as a failed `CHECK`,
only for particular shapes of blocks.

## The system

    base64 -> std_boc_deserialize -> convert_to_my_cells -> initial_cell_order, apply_order
           -> my_cells_to_bit_str -> run_lz -> encode_8 -> base64                       (compress)
    base64 -> decode_8 -> deserialise -> my_cells_to_vm_root -> std_boc_serialize -> base64 (decompress)

| Component | State | Operations | Correct when |
|---|---|---|---|
| cell conversion, `serializator.hpp:23-122` | `pos` (pointer to number), `my_cells`, the stack of the recursion | `MyCell` constructor, `convert_to_my_cells` | each reachable cell is numbered once; every pointer resolves; special cells lose no data |
| cell ordering, `436-533` | `out_degree`, a `std::set` keyed by it, `order` | `initial_cell_order`, `apply_order` | the order is complete and topological, ends in the root, and renumbering keeps the graph |
| bit layout, `124-139`, `535-612` | the bit string, `meta` (bit to cell and field) | `push_d1`, `push_data_size`, `push_refs`, `push_data` | every field can be read back from the ones before it |
| LZ encoder, `614-772` | position, `last_literal_start`, the output | `run_lz`, `dump_token`, `dump_literal`, `dump_num` | the tokens denote the bit string; a match names one earlier place |
| match finder, `suff_aut.hpp` | automaton, `last_suff`, `i_ptr` | `add_c`, `prepare_matches`, `get_match` | what it returns is the longest earlier match |
| decoder, `892-904`, `1017-1318` | `out_bits` with a read and a write position, `my_cells`, `cell_metas`, `last_read_meta` | `advance_lz_decoder`, `advance_cells_read`, `try_read_*`, `predict_next_meta`, `get_pos` | what has been decoded is a prefix; each field is read as it was written; it ends |
| cell rebuild, `906-1015` | `was`, `order`, `cells`, `ready` | `my_cells_to_vm_root` | cells are built from finished ones; the last one is the root |
| Huffman coder, `huffman.hpp:111-241` | the tree, the codes | constructor, `encode_symbol`, `decode_symbol` | both ends build one prefix code |
| byte coder, `huffman.hpp:243-278`, `utils.h:94-113` | bit positions | `encode_8`, `decode_8`, `bytes_str_to_bit_str` | the end mark is found; bytes come back |
| dictionary, `dictionary.hpp` | automaton of all training strings, counts, candidates, `killed`, `dict_v`, `sum_len` | `add_training_data`, `build_dict` (run by `build_dict.cpp`) | the counts are those of the words; no chosen word contains another; the sizes add up |
| rANS, statistics, offline tools | tables and experiments | not on the path that `main` runs | - |

The components interact by calls, in the order of the diagram, within one end; between the two ends
only the string passes. The decoder is one closure-based state machine: `advance_lz_decoder` writes
bits through `out_bits_write_ptr`, `advance_cells_read` reads behind it at `out_bits.offs`, and the
two depend on each other through `cell_metas` and `last_read_meta`.

The behaviours that are hard to test (`PROJECT.json` lists each at its line):

* a `std::set` whose comparator reads a degree that the loop changes (502);
* a field half written when a match addresses it, and cells without references or data, that have no
  field at all (1182, 1237);
* a match that overlaps itself (1305), and one that runs across the fields of several cells;
* the current cell, known to the encoder and predicted by the decoder (1294);
* the root, which the stream does not name (1014);
* repeated references, one cell alone, and counts at a power of two (501, 563);
* numbers at the escape thresholds and at multiples of the largest chunk, in a stream that does not say
  how many tokens it has (653, 717, 1053);
* frequencies that are alike, in a Huffman tree that each end builds for itself (`huffman.hpp:145`), and a
  code that is cut off where the bits end (`huffman.hpp:224`);
* states of the suffix automaton that are cloned and shared (`suff_aut.hpp:56`, `123`), and a parse
  that does not ask about every position (`118`);
* training strings that follow each other in one automaton without a border (`dictionary.hpp:31`), states that a
  loop may reach on several ways (`125`, `136`), and words that leave the dictionary again (`214`).

## Modules

| Module | Models | Composition |
|---|---|---|
| `CellGraph` | what a graph of numbered cells is: references, acyclic, rooted | used by the cell modules below |
| `CellDfs` | `convert_to_my_cells` as a machine with an explicit stack of calls | its result is the input assumed by `CellOrder` (`HandsOverCellGraph` states `IsCellGraph` of it) |
| `CellOrder` | `initial_cell_order` and `apply_order` | its result is the block form assumed by `Layout` (`RefsGoBack`, `RootLast`) |
| `CellOrderProofs` | theorems about `CellOrder` | extends `CellOrder` |
| `Bits` | bit strings, numbers in bits, the mark that ends a string, prefix codes | used by everything that handles bits |
| `DataFacts` | a theorem about the mark, and the lemmas about numbers, bits, prefix codes, stacks and sums that the other proofs share | extends `Bits` |
| `Layout` | fields, their bits, the codes, the stream's variables | extended by both ends |
| `Matching` | what a match is, and the best one | used by `Encoder`, `GreedyParse` and `SuffAut` |
| `Encoder` | `my_cells_to_bit_str` and `run_lz` | |
| `Decoder` | `deserialise` up to the cells | |
| `FieldTransfer` | abstract specification of the codec: fields become known, once, as sent, and in the end all | |
| `Codec` | `Encoder`, then `Decoder`, over one stream of tokens; implements `FieldTransfer` | extends both ends, `INSTANCE FieldTransfer WITH` |
| `CodecProofs` | theorems about `Codec` | extends `Codec`, `DataFacts` |
| `GreedyParse` | abstract specification of the match finder: the best match at each position | |
| `SuffAutBase` | `add_c` step by step, and what its states stand for | extended by the two below |
| `SuffAut` | `prepare_matches`, `get_match`, and the loop of `run_lz` that asks it; implements `GreedyParse` | `INSTANCE GreedyParse`; what it promises is what `Encoder` takes for granted (`IsBestMatch`) |
| `Dictionary` | `Dictionary`: counting over the automaton of all training strings, the choice of words, the killing of their substrings, the output | extends `SuffAutBase` |
| `AutomatonProofs` | theorems about `SuffAutBase`, `SuffAut` and `Dictionary` | extends `SuffAut`, `Dictionary`, `DataFacts` |
| `TokenChannel` | abstract specification of the token stream: tokens arrive in order, unchanged, and all of them | |
| `TokenStream` | header, tokens and end mark as bits, written by `run_lz` and read by `deserialise`; implements `TokenChannel` | `INSTANCE TokenChannel WITH`; what it promises is what `Codec` takes for granted |
| `TokenStreamProofs` | theorems about `TokenStream` | extends `TokenStream`, `DataFacts` |
| `Huffman` | `HuffmanEncoderDecoder`: construction, encoding, decoding that may be cut off | its codes are what `Layout` and `TokenStream` assume of theirs (`CodesUsable`) |
| `HuffmanProofs` | theorems about `Huffman` and `ByteCoder` | extends `Huffman`, `ByteCoder`, `DataFacts` |
| `ByteCoder` | `encode_8` and `decode_8` around the codec; implements `TokenChannel` for bytes | `INSTANCE TokenChannel WITH` |
| `SpecialCell` | the contents of one cell through the `MyCell` constructor and `my_cells_to_vm_root`: type byte, data, rebuilt Merkle cells | what `Codec` carries is data bits and a flag |
| `CellBuild` | `my_cells_to_vm_root` as a machine with an explicit stack | its input is any acyclic graph of cells that is rooted |
| `CellBuildProofs` | theorems about `CellBuild` | extends `CellBuild`, `DataFacts` |
| `BlockCells` | the cells of a block from end to end: `CellDfs`, then `CellOrder`, then `CellBuild`, each called with the result of the one before | extends `CellDfs`, `INSTANCE`s of the other two |
| `BlockCellsProofs` | theorems about `CellDfs`, `BlockCells` and `SpecialCell` | extends `BlockCells`, `SpecialCell`, `DataFacts`, `INSTANCE`s of `CellOrderProofs` and `CellBuildProofs` |
| `MC*` | instances for TLC | |

How state and actions correspond to the code: variables carry the source's names where TLA+ allows
it (`outDegree` for `out_degree`, `order`, `lastMeta` for `last_read_meta`, `offs` for `out_bits.offs`, `Len(outBits)`
for `out_bits_write_ptr`). A loop that the hazards look into is an action per turn (`Pop` / `Relax` /
`EndRelax` in `CellOrder`; `ReadD1` ... `ReadData` / `EndAdvance` for `advance_cells_read`; `CopyBit` for
the copy loop); a loop whose turns nothing can observe is one action (`ApplyOrder`, `PushField` for one
field). A recursive lambda becomes a stack of frames with an action for the call and one for the return.
A `CHECK` that fails ends the program: the condition is a guard of the action, and the invariant
`ChecksHold` of each module says that it is always satisfied where the code evaluates it.

The std::set of `initial_cell_order` is a set of pairs of a cell and the degree it was inserted under.
A real `std::set` finds a cell only if the key it was inserted under still compares as before;
`SetKeysFresh` is this condition.

## Runs

| Run | Question | Bounds, and why they are enough |
|---|---|---|
| `cell_order` | Is the peeling order complete, topological, rooted at its end, with the set's keys never stale, and does renumbering keep the graph? | all rooted acyclic graphs of up to 4 cells (2 references each, up to 4 with 3 cells) in every numbering with the root at 0, repeated references included: chains, diamonds, sharing at different depths and equal degrees all occur |
| `block_cells` | Does the numbering reach every cell once and hand over what the ordering assumes? After the ordering and the rebuild, does the pointer that comes out lead to the same cells as the one that went in? | all acyclic graphs on 4 cells with up to 2 references each, cells that the root does not reach included: cells shared at different depths are numbered three times, by the walk, by the peeling and by the sort |
| `codec` | Does each block come back, through every intermediate state of the incremental decoder? | all blocks of up to 3 cells with data of 0 to 3 bits, one special cell, and matches from 3 bits: at this size matches start in half-read fields, run across cells and overlap themselves, and empty fields precede and follow them |
| `suff_aut` | Is the automaton that of the text after each character, and is the longest match found, at its last place, for the positions asked? | all texts of up to 9 bits (first bit 0: the code treats the two bits alike), matches from 2 bits: at this length one text needs several clones, and the parse jumps over positions and meets matches that overlap themselves |
| `token_stream` | Do tokens arrive unchanged, is the reader at every point where the writer was, and is the end found? | short codes and chunks with numbers below, at and above each threshold and at multiples of the largest chunk, streams of up to 3 tokens, with and without a last literal, ending at every bit of a byte |
| `huffman` | Do both ends build the same, optimal prefix code, and is a code that is cut off tried again? | all tables of 2 to 4 small frequencies and some of 5, with zeros and ties of leaves with inner nodes; messages of 2 symbols cut after every bit |
| `byte_coder` | Do the bytes come back, no fewer and no more? | strings of up to 5 of 4 bytes, with codes of 1 to 15 bits (the real ones have 6 to 9): every alignment of the mark, and the buffer filled to its last byte |
| `special_cell` | Do the contents of cells survive the packing and the rebuilding? | each type, data lengths around the type byte, whole bytes and chunks of `push_bit_range`, Merkle cells over 1 and 2 references, in blocks of 256 to 65535 cells |
| `merkle_depth_width` | The same for blocks of other sizes: expected to fail, see below | 3, 255 and 65536 cells, on the other side of where the width changes |
| `cell_build` | Is the block rebuilt whatever the numbers of its cells are, with the right root? | all rooted acyclic graphs of up to 4 cells, the root at any number |
| `dictionary` | Are the counts those of the words, is no state in the queue twice, do the chosen words stay apart, do all `CHECK`s hold? | all pairs of strings of up to 4 bits and triples of up to 3 (the first bit 0), and triples in which one string is within the other two: only there is a word taken before a longer one that contains it; dictionaries of 5 and of 9 bits, words from 2 bits |
| `dictionary_counts` | Does `cnt_diff_strings` count what its comment says? Expected to fail, see below | the same |

### Findings

`merkle_depth_width`: the depths in a Merkle cell are rebuilt with `len_in_bytes(n_cells)` bytes
(`src/serializator.hpp:976`), where the cell has two (`depth_bytes = 2`,
`src/include/crypto/vm/cells/CellTraits.h:43`). A block with a Merkle cell comes back only if it has
between 256 and 65535 cells. `special_cell` checks the same property inside this range, and `CellContentsComeBack` proves
that the range is exact: outside it no Merkle cell is put together right. It is never accepted wrong either
(`NoOtherCellAccepted`): the decoder stops.

`dictionary_counts`: the comment on `cnt_diff_strings` (`src/dictionary.hpp:122`) says "in how many distinct strings
from the training set the substring is occurred", and the substring that `build_dict` scores and puts out for a state is its
longest word. `CountsRight` shows that the count is that of the shortest word; the longest may run across the border of two training
strings, for `add_training_data` goes on with the automaton of the strings before, and then fewer strings contain it, or
none does.

### Bounds

`MIN_MATCH_LEN` is 32 in the code and a constant here; nothing in the code relates it to other widths.
The Huffman codes of the layout and the tokens are constants, any prefix codes without an empty word, which is
what `HuffmanProofs` proves of the construction for every table; the instances
take short ones with the shape of the real tables (a likely symbol has a short code, so that fields of
one to three bits end inside matches). The widths of chunks, header, hashes and `push_bit_range` are
constants for the same reason. The real tables have as many symbols as the thresholds need (501, 301,
1001, 1048, 1024 and 16).

Each property has a mutant: a change to the modelled code that a plausible slip would make and that
the run must catch. They stand before the definition they change and are marked as mutants; no
specification uses them.

Deadlock is checked in every run; the end of a program is a stuttering action (`Done`), so that a run that
stops anywhere else is reported.

## Fairness

`CellOrder`, `Codec`, `SuffAut`, `TokenStream` and `ByteCoder`, of which runs check that something happens in the end,
assume weak fairness of their whole next-state relation. The program is a single thread that waits for nobody: as long
as a next statement exists it is executed. No choice is assumed to be fair. The other specifications
state no fairness, and their runs check safety and the absence of deadlock.

## Proofs

`CellOrderProofs` proves every safety invariant of `cell_order`, and `RefsGoBack`, for every set of rooted acyclic
graphs (`CellOrder`'s assumption on its constant), in particular that no `CHECK` can fail and that the
order is topological and ends in the root.

The invariant is seldom inductive as the runs state it. The argument:

* `DegreesCorrect` and `KeysNeverStale` rest on the relaxation in progress: in the middle of relaxing a
  cell, the degree of a cell that refers to it counts the references not yet relaxed. `IInv` adds to the
  invariants what the loop knows between two turns (the slots done so far, that settled cells have left
  the set, that all targets of an ordered cell are ordered).
* That the first cell of the set has degree 0 is not a fact about one step: it needs that among the
  cells not ordered there is one that refers to none of the others. The lemma takes it from acyclicity,
  stated as the absence of a non-empty set of cells each referring into the set, which needs no
  induction over paths.
* `RootIsLast` follows from rootedness in the same form: no set of cells without the root is closed
  under "who refers to me"; and the graph in its new numbers is rooted again (`RootedGraphHandedOver`), which is
  what the rebuild needs of it.

`HuffmanProofs` proves, for every set of tables of two symbols or more, the type invariant, that the
construction is determined (`OrderDetermined`), that its codes are prefix codes without an empty word
(`CodesUsable`), which is the assumption `Layout` and `TokenStream` make on theirs, that no prefix code makes a text with the
table's frequencies shorter (`CodesOptimal`), and that decoding inverts encoding
up to the place where the bits are cut off (`DecodesWhatWasEncoded`). The argument:

* the nodes partition the symbols inserted so far, hence no two have the same least symbol, the last
  thing `cmp` compares;
* the paths below a node are a prefix code, which merging keeps: within a child the same bit is
  prepended to both (`SameBit`), between the children the first bits differ (`OtherBit`); the lemmas on bit
  strings compare them bit by bit (`PrefixPointwise`);
* at the end one node has all symbols, and as there are two of them no path is empty, for the empty string begins
  every other;
* whatever code lengths fit (the sum of 2^-length is at most 1), the nodes that are left have levels that fit as well, with which the
  whole text is no longer (`BestSoFar`): the leaves have the lengths as levels; of all levels that fit some are cheapest, and there the lowest
  level has two nodes, as one alone would fit a level higher by divisibility (`LowestNotAlone`); the rarest two may change places
  with them (`SwapFacts`, `RarestLowest`), and then their parent fits on the level above (`ParentFits`) and costs its frequency
  less (`ParentCost`). The root is left with a level that saves nothing. A frequency of 0 counts as 1 in all of this, which is what makes
  one alone cheaper on the level above;
* the bits written are the codes of the message one behind the other. The decoder stands at the end of one of them, or
  inside the next, where the bits it has read begin that code and no other symbol's code is complete; so it
  comes to that symbol's leaf, or to the limit, and then the code did not fit.

`CellBuildProofs` proves every invariant of `cell_build` for every set of rooted acyclic graphs, whatever the
cells' numbers. The argument:

* the stack of the recursion is a path of references (`FramesBehind`: the reference before the one a loop stands at leads
  to the call above it). A cell met again is therefore sorted already: were it on the stack, the calls from it to the top would be
  cells each of which refers to one of them, which acyclicity excludes (`VisitedIsSorted`);
* so all references of a cell are sorted when its call returns, and the order is topological at every moment;
* the loop over all cells has left no cell unvisited, hence the order is a bijection and has the length the `CHECK` compares;
* cells built are made of cells built before, which later steps do not touch (`BuiltRight`), and the last cell of
  the order is the root: a cell that referred to it would come after it.

`BlockCellsProofs` proves the invariants of `CellDfs` that `block_cells` checks, for every acyclic graph. The walk leaves behind it
a set of cells closed under references; every cell but the root was met by a reference; so the numbered graph is rooted,
and a cycle under the new numbers would be one of the cells. `CellGraphHandedOver` is what `CellOrder` assumes of its input.
It then proves the composition: `BlockReturns`, that the pointer which `my_cells_to_vm_root` returns leads to the same cells as the
one that `convert_to_my_cells` was given, and `BlockChecksHold`, that no `CHECK` fails on the way. The argument:

* a function that has been called keeps its invariant whatever its neighbours do (`BlockInv`): the call finds it in a state in
  which the function before has finished, so what that function is proved to hand over is what this one assumes (`CallOrderSteps`,
  `CallRebuildSteps`); the proofs of the two are taken over by `INSTANCE`, not repeated;
* what a cell should be built as (`AsBuilt`) is a recursive function over the references of the given block, and is defined because they
  end (`AsBuiltFound`); a cell has a number, a place in the order and a place among the cells built, which `NumberedFacts` composes;
* no cell is the first that is not built as it should be (`BuiltAsBuilt`).

`DataFacts` proves `MarkRoundTrip`: a bit string comes back from the marked whole bytes in which
`my_cells_to_bit_str`, `run_lz` and `encode_8` hand bits on, for every string, the empty one included. The mark
is the only 1 bit behind the string and within the last eight. Its lemmas are used throughout: a number of w bits comes back
from its bits (`UintBack`), by induction over the width; of two codes that begin the same string one begins the other (`OneSymbol`);
consecutive pieces of a string (`PiecesGoOn`); sums over finite sets
(`SumGrows`, `SumUnion`, `SumRenamed`), by induction over the subsets of one. Induction over the naturals is taken in the form that the provers can use,
over a set instead of a predicate (`NatInduct`, and `NatRecursion` for functions defined by recursion), and 2^n is a recursive function
`Pow2` in `Bits`.

`HuffmanProofs` also proves the safety part of the refinement that `byte_coder` checks, `BytesArriveInOrder`, for every prefix code: `decode_8` gives
out the bytes of `encode_8` in order, and returns all of them (`BytesComeBack`); and that no `CHECK` of the two can
fail (`ByteCoderChecksHold`). The argument:

* the bits written are the codes of the bytes one behind the other, each between the ends of two neighbours;
* the bits come back from their marked bytes by `MarkRoundTrip`;
* the decoder always stands at the end of a code, and at that place only the next byte's code fits: of two
  codes that begin the same string one begins the other (`OneSymbol`);
* codes are shorter than 16 bits, so n bytes need less than the 2n bytes of the buffer.

`TokenStreamProofs` proves the invariants of `token_stream` and the safety part of its refinement, for all prefix codes, thresholds, widths of
chunks and streams of tokens: `deserialise` is at every point where `run_lz` was, up to the mark and not beyond (`ReaderInStep`), tokens
arrive in order and unchanged (`TokensArriveInOrder`), and every number can be read where the code reads one (`NumbersCanBeRead`). The
argument:

* a place of `run_lz` (which number of which token, and what is left of it) determines the bits that are written there and the place
  that follows. The stream is a course of such places, one piece of bits behind the other (`IsCourse`);
* `deserialise` is always at one of these places with the same values in its variables, and the piece there is the only one that its
  reading can take: by prefix-freeness for a code, by `UintBack` for a chunk or an offset;
* a chunk of the largest value is followed by another, a smaller one ends the number, at both ends by the same comparison;
* the reader stops at the mark only if the place is the end: every other place has a piece, and none is empty.

`CodecProofs` proves the invariants of `codec` and the safety part of its refinement, for every set of blocks, all prefix codes and every
length of matches: the tokens denote the bit string (`TokensDescribeBits`), the output is always the beginning of it
(`OutputCorrect`), the guessed cell is the right one (`CellGuessCorrect`), every written bit is found by cell and offset
(`WrittenBitsNamed`), no `CHECK` fails (`CodecChecks`), fields become known once and as they were sent (`FieldsLearned`), and when `deserialise` ends
the counts, the flag, the data and the references of each cell are those of the block (`CellsArrive`). The statements about the decoder are not inductive, nor can one be proved without the others: the bits of a
match are right because its source is found, the source is found because the fields before were
read as they were written, and these are read from bits that came from matches. The invariant `IInv` therefore says all
of it at once:

* the fields lie one behind the other in the bit string (`Placing`), and the tokens cover it
  (`TokenEnds`), each match with the address of a source before it;
* the decoder has read the fields up to some place and noted where they are; of the others it has noted nothing
  except the beginning of the next, once it stops reading (`ReadSoFar`, `BeginningNoted`);
* so the first field behind the last one read that is not known to be empty is the field of the first unread bit (`NextIsRight`),
  for a field is known to be empty exactly if it has no bits and its counts are read;
* a code that the unread bits start with is the code of the field (`DecodesRight`, by prefix-freeness), and a field is read as
  soon as it is complete (`ReadWhenComplete`), so that what is left over when reading stops is shorter than a field;
* the bits of a cell before a given one are those of its fields before, and a part of its own field (`CountWithin`): this is
  how the offset that `build_offsets_within_cells` counts and the sum that `get_pos` takes apart agree (`WrittenFound`);
* the distance back to a cell, modulo the number of cells, is undone (`DistanceBack`), so the source found is the source of the
  match, and until the end of the match the bits behind it are the next bits (`CopyBitOK`), also where the match overlaps itself;
* a reference is a distance less than the number of cells, in bits enough for it (`LenInBitsFits`), and comes back by `UintBack`.

It assumes of a block what `IsBlock` says: references to smaller numbers, at most 4 of them, counts that have a code, and a number of
cells whose references take at most 64 bits, which any number of cells the program can count does.

`AutomatonProofs` proves every safety invariant of `suff_aut`, `dictionary` and the safety part of the refinement that `suff_aut` checks,
for every text and every set of training strings. That the nodes are the suffix automaton of what has been read
(`AutomatonIsOfText`) is neither inductive nor stated in a form that a step can be compared with, for its states are found by walking
words from the root. The argument:

* a labelling `at[e][l]` gives the word of length l that ends at e its state, and `Automaton` says locally what a labelling must
  satisfy: equal labels for equal words, one label only for words of which the shorter ends the longer; the lengths of a label form an
  interval, from the length of its link plus one up to `len`; labels that have the same words are the same (`Distinct`); and the
  steps are those of the text. It contains no path and no recursion, and adding one character changes it in few places;
* `Turn` is one character. The new word ends where no other does, down to the longest suffix that has occurred before; there the loop
  over the links stops, either at a state that has only this word, or at one that has to be split (`NewLabels`, `NewLens`,
  `NewSteps`: what the clone takes over). In the middle of `add_c`, `BuildInv` says the same less what its loops have not come to: the states below
  the one they stand at have their new steps (`FilledFrom`, `RedirectedFrom`), the others the old ones;
* the number of nodes (`NodesFitReserve`) is at most one after none, two after one, and 2n - 1 after n characters, for a character adds at most two,
  and neither the first nor the second splits a state. Only for a text of one bit is that, with the null node, more than the reserve;
* in `MatchInv`, what a climb has noted at a state is the nearest earlier place with which the suffix at hand shares a word of it. It follows
  from what was noted by the climbs from the suffixes in between, of which each passes exactly the states of its own
  prefixes. The state where a climb finds something first is the longest match, and `TakesBestMatches` follows, step by step.

For the dictionary `DictInv` adds to the automaton:

* `Tally` of a state is the number of places where its words end (`EndsOf`). These are split by the character that follows, over
  the transitions, with one more if a word of the state is a suffix of all the data; this is the recursion that the code carries out along
  `top_sort`, and `CountsAreOfWords` follows from the uniqueness of its solution (`UpBuilt`, `Tallied`). A string marks what it contains
  (`InString`): the states on its walk and the links from there, each once (`Holding`). A
  string that contains any word of a state contains its shortest, which is the end of all the others, so that this is the word whose
  strings are counted;
* in the queue of a string, or of a kill, no state occurs twice (`Once`), as a state is put there only when it is not marked or
  killed and then is (`QueueHoldsStates`);
* when a word is taken, all that it contains is removed. The code removes what a link or a transition leads back to, and goes on from there;
  the invariant is that below a removed or a taken state all is removed, or still in the queue (`Emptied`, `Pending`). A word within
  another is reached by such steps, so no chosen one is left within a chosen one (`DictionaryApart`). A state is put out by its longest word, which
  `restore_longest_str_for_v` finds backwards over transitions (`Restored`), of the length that `sum_len` was charged with
  (`DictionaryChecksHold`).

What it assumes of the training strings is that there is one and that none is empty; `build_dict.cpp` takes serialised blocks. For
`CHECK(n >= training_strings.size())` this is needed.

The second part of `BlockCellsProofs` is about `SpecialCell`: cells of any length and type, digests of any width,
`push_bit_range` by any chunk, and blocks of up to 2^20 - 1 cells, as the header counts them in 20 bits. `CellContentsComeBack`
states that a cell comes back if and only if it is not a Merkle cell or the number of cells takes two bytes;
`CellChecksHold` that under this condition no `CHECK` fails. The argument: what the constructor has packed is the type in two bits
and then a stretch of the cell's own bits, whose end moves by up to a byte (`Packed`); what `push_bit_range` has written is a beginning of the
cell's own bits, and 6 bits further back in the packed data (`PackedFacts`); a Merkle cell is the type byte, the hashes of the first references and their
depths (`FirstHashes`, `FirstDepths`), the same concatenation as in the cell for the one width only, as otherwise the lengths differ
(`BuiltRight`). The width is 16 exactly between 2^8 and 2^16 (`DepthWidthOf`).

Model-checked only, and why:

* termination and the liveness part of `FieldsTransferred`, `TokensArrive`, `BytesArrive` and `FindsBestMatches`: liveness under
  fairness is outside the prover's reach.

Every safety invariant that a passing run checks is also proved.

## What is abstracted, and what is not modelled

* Base64 and the bag-of-cells format are the TON library's; the models start from and end in the graph
  of cells. `vm::CellBuilder` is modelled by what it accepts.
* In `Codec` tokens are records; their bits are in `TokenStream`.
* Hashes are a few bits, of which only identity and length matter.
* The sizes of the buffers of `run_lz` and `deserialise` are not modelled: they depend on the code lengths
  of the real tables.
* Frequencies are natural numbers; those of the real tables sum to less than two million.
* The sums that `Dictionary` takes over a graph of states (`top_sort`, `cnt_occured`) are recursive functions; the order in which
  the code lists states of equal length makes no difference to them.
* `rANS.hpp` is not modelled: `main` does not call it, and it is not finished. Its decoder does not read what its encoder writes, so
  there is no promise to check.
* `serialize`'s `if (false)` block (reordering by matches) is dead code; `build_stats` and the offline tools (`analyse*.cpp`, `encode_array.cpp`,
  `build_huffman.cpp`, `assemble_submit_file.py`) read files and print tables; they keep no state.
* `src/include` holds the headers of the TON library, which are most of the repository's lines (52 of 56 thousand): declarations of a library whose
  implementation is not in the repository, of which the program uses cells, the bag-of-cells format, bit pointers and base64.

## Plan

Done: all components on the path that `main` runs, and the dictionary; their composition for the cells (`BlockCells`); proofs of every
safety invariant and of the safety part of every refinement. What is left:

1. `Capacity`: how many bits `run_lz` and `deserialise` write, as a function of code lengths, against their buffers;
2. the composition of the streams (`Codec` over `TokenStream` over `ByteCoder`) in one module, as `BlockCells` is for the cells: so far each assumes
   what the next one is proved to promise;
3. rANS, if `main` calls it by then.
