------------------------------ MODULE AvifMeta ------------------------------
(***************************************************************************)
(* avif_meta.rs: the reader that recovers orientation and EXIF from an     *)
(* AVIF container, which the AVIF decoder throws away.                     *)
(*                                                                         *)
(* A container is the sequence of its top-level boxes and a box a record   *)
(* with its type and what the reader takes from its content.  A box whose  *)
(* header does not fit the bytes left has type "broken"; a content that    *)
(* ends too early has whole = FALSE.  Options are sets of at most one      *)
(* element.  MAX_NESTING_DEPTH is never met: the reader goes three deep.   *)
(***************************************************************************)
EXTENDS Integers, SequencesExt

CONSTANTS
    MaxBoxesVisited,    \* MAX_BOXES_VISITED
    MaxExifLen          \* MAX_EXIF_LEN

ASSUME AvifMetaAssumption == MaxBoxesVisited \in Nat /\ MaxExifLen \in Nat

-----------------------------------------------------------------------------
(* Orientations and what they do to the corners of an image. *)

\* image::metadata::Orientation: clockwise quarter turns, then a left-right
\* flip.  FlipVertical is a half turn and a flip.
Orientations == [turns : 0..3, flip : BOOLEAN]
NoTransforms == [turns |-> 0, flip |-> FALSE]

\* A corner is <<x, y>>, y downwards; a view says where each corner of the
\* file's pixels is now.
Corners == (0..1) \X (0..1)
Views == [Corners -> Corners]
AsStored == [c \in Corners |-> c]

TurnRight(v) == [c \in Corners |-> <<1 - v[c][2], v[c][1]>>]
FlipH(v) == [c \in Corners |-> <<1 - v[c][1], v[c][2]>>]
FlipV(v) == [c \in Corners |-> <<v[c][1], 1 - v[c][2]>>]

\* rotate90, rotate180, rotate270.
Turned(v, turns) ==
    CASE turns = 0 -> v
      [] turns = 1 -> TurnRight(v)
      [] turns = 2 -> TurnRight(TurnRight(v))
      [] turns = 3 -> TurnRight(TurnRight(TurnRight(v)))

\* An EXIF blob, as far as its Orientation tag goes: an option.
Exifs == [tag : SUBSET Orientations]

\* DynamicImage::apply_orientation.
ApplyOrientation(v, o) == IF o.flip THEN FlipH(Turned(v, o.turns)) ELSE Turned(v, o.turns)

-----------------------------------------------------------------------------
(* Transform: the dihedral group as maps z -> z * i^by of the complex plane, *)
(* or z -> conj(z) * i^by when mirror.                                       *)

Rotation(a) == [mirror |-> FALSE, by |-> a]
Reflection(c) == [mirror |-> TRUE, by |-> c]

\* Fault: a leading rotation is added to a reflection, not subtracted.
ThenCommutes(t, op) == [mirror |-> t.mirror # op.mirror, by |-> (op.by + t.by) % 4]

\* Transform::then: t first, op second; a reflection conjugates what came before.
Then(t, op) ==
    [mirror |-> t.mirror # op.mirror,
     by |-> IF op.mirror THEN (op.by + 4 - t.by) % 4 ELSE (t.by + op.by) % 4]

\* Transform::into_orientation; i^1 is a turn to the left.
IntoOrientation(t) ==
    IF t.mirror THEN [turns |-> (t.by + 2) % 4, flip |-> TRUE]
                ELSE [turns |-> (4 - t.by) % 4, flip |-> FALSE]

-----------------------------------------------------------------------------
(* Boxes. *)

IsSequence(s) == s \in Seq(Range(s))

\* What the reader finds in a box of each type it opens.
Parents == {"meta", "iprp", "ipco", "iinf"}
IsBox(b) ==
    /\ b.type \in STRING
    /\ b.type \in Parents => IsSequence(b.boxes)
    /\ b.type \in {"irot", "imir"} => b.value \in Nat
    /\ b.type \in {"ipma", "iloc"} => IsSequence(b.entries)
    /\ b.type = "ipma" => \A e \in Range(b.entries) : IsSequence(e.indices)
    /\ b.type = "iloc" => \A e \in Range(b.entries) : e.tiff \subseteq Exifs

Inside(boxes) == UNION {Range(b.boxes) : b \in {b \in boxes : b.type \in Parents}}

\* The boxes at each depth the reader goes to.
IsContainer(c) ==
    LET second == Inside(Range(c))
        third == Inside(second)
    IN  /\ IsSequence(c)
        /\ \A b \in Range(c) \cup second \cup third \cup Inside(third) : IsBox(b)

\* read_box_header: the size in it, 32 or 64 bits or "to the end", holds the
\* header itself and fits the bytes left.
read_box_header(box) == box.type # "broken"

\* walk_boxes: the boxes visited, at most `budget` and none from the first
\* unreadable one on.  Each one visited is taken from the budget.
walk_boxes(boxes, budget) ==
    LET Reaches(n) == n <= Len(boxes) /\ n <= budget /\ \A i \in 1..n : read_box_header(boxes[i])
    IN  SubSeq(boxes, 1, CHOOSE n \in 0..Len(boxes) : Reaches(n) /\ ~Reaches(n + 1))

The(option) == CHOOSE x \in option : TRUE

\* The first element that passes a test: an option.
First(seq, Test(_)) ==
    {seq[i] : i \in {i \in DOMAIN seq : Test(seq[i]) /\ \A j \in 1..i - 1 : ~Test(seq[j])}}

\* find_first_box, among the boxes visited.
FirstBox(visited, type) == First(visited, LAMBDA b : b.type = type)

\* The search for an item's entry ends at it, or where the bytes end.
EntryOf(entries, item) ==
    {e \in First(entries, LAMBDA e : e.item = item \/ ~e.whole) : e.whole}

-----------------------------------------------------------------------------
(* Orientation. *)

parse_primary_item_id(pitm) == {b.item : b \in {b \in pitm : b.whole}}

\* collect_properties: every box of ipco counts for the index of the ones after
\* it; irot and imir with a content transform, by its low bits.  An irot or imir
\* without content is as good as any other box.
collect_properties(visited) ==
    [i \in {i \in DOMAIN visited : visited[i].type \in {"irot", "imir"}} |->
        CASE visited[i].type = "irot" -> Rotation(visited[i].value % 4)
          [] visited[i].type = "imir" -> Reflection(IF visited[i].value % 2 = 0 THEN 2 ELSE 0)]

\* The properties of the primary item, in order; 0 stands for none.
parse_primary_item_associations(ipma, item) == {e.indices : e \in EntryOf(ipma.entries, item)}

\* resolve_orientation's loop.
Composed(properties, indices) ==
    LET transform[n \in 0..Len(indices)] ==
            IF n = 0 THEN Rotation(0)
            ELSE IF indices[n] \in DOMAIN properties
                 THEN Then(transform[n - 1], properties[indices[n]])
                 ELSE transform[n - 1]
    IN  transform[Len(indices)]

\* resolve_orientation, and the budget it leaves.
resolve_orientation(pitm, iprp, budget) ==
    IF iprp = {} \/ parse_primary_item_id(pitm) = {}
    THEN [orientation |-> {}, left |-> budget]
    ELSE LET children == walk_boxes(The(iprp).boxes, budget)
             ipco == FirstBox(children, "ipco")
             visited == IF ipco = {} THEN <<>>
                        ELSE walk_boxes(The(ipco).boxes, budget - Len(children))
             item == The(parse_primary_item_id(pitm))
             indices == UNION {parse_primary_item_associations(b, item) :
                                  b \in FirstBox(children, "ipma")}
         IN  [orientation |-> IF ipco = {} THEN {}
                              ELSE {IntoOrientation(Composed(collect_properties(visited), is)) :
                                       is \in indices},
              left |-> budget - Len(children) - Len(visited)]

-----------------------------------------------------------------------------
(* EXIF. *)

parse_infe_exif_item_id(infe) ==
    IF infe.version \in {2, 3} /\ infe.kind = "Exif" THEN {infe.item} ELSE {}

find_exif_item_id(iinf, budget) ==
    UNION {parse_infe_exif_item_id(b) :
             b \in First(walk_boxes(iinf.boxes, budget),
                         LAMBDA b : b.type = "infe" /\ parse_infe_exif_item_id(b) # {})}

find_iloc_entry(iloc, item) == EntryOf(iloc.entries, item)

\* extract_exif_tiff: the item's bytes, if they are in this file and all there,
\* not too many, and begin a TIFF header where they say they do.
extract_exif_tiff(entry) ==
    LET Length == FoldLeft(LAMBDA n, e : n + e.length, 0, entry.extents)
    IN  IF /\ entry.method = 0
           /\ \A i \in DOMAIN entry.extents : entry.extents[i].inside
           /\ Length \in 4..MaxExifLen
        THEN entry.tiff ELSE {}

extract_exif_payload(iinf, iloc, budget) ==
    UNION {UNION {extract_exif_tiff(e) : e \in find_iloc_entry(l, item)} :
             l \in iloc, item \in UNION {find_exif_item_id(b, budget) : b \in iinf}}

\* parse: one budget for all the walks, in this order.
Parse(container) ==
    LET top == walk_boxes(container, MaxBoxesVisited)
        meta == FirstBox(top, "meta")
        children == IF meta = {} THEN <<>>
                    ELSE walk_boxes(The(meta).boxes, MaxBoxesVisited - Len(top))
        turned == resolve_orientation(FirstBox(children, "pitm"), FirstBox(children, "iprp"),
                                      MaxBoxesVisited - Len(top) - Len(children))
    IN  [orientation |-> IF turned.orientation = {} THEN NoTransforms ELSE The(turned.orientation),
         exif |-> extract_exif_payload(FirstBox(children, "iinf"), FirstBox(children, "iloc"),
                                       turned.left)]

=============================================================================
