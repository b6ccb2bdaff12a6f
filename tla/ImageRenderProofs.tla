------------------------- MODULE ImageRenderProofs -------------------------
(***************************************************************************)
(* Theorems about an image job (ImageGeometry and ImageRender), for any    *)
(* requests, sources and limits.                                           *)
(***************************************************************************)
EXTENDS ImageRender, WellFoundedInduction, TLAPS

-----------------------------------------------------------------------------
(* Arithmetic. *)

\* Integer division, by its remainder.
LEMMA Quotient ==
    ASSUME NEW a \in Int, NEW b \in Nat \ {0}
    PROVE  /\ a \div b \in Int
           /\ b * (a \div b) <= a
           /\ a < b * (a \div b) + b
  OBVIOUS

\* A product grows with its factors.
LEMMA ProductMonotone ==
    ASSUME NEW a \in Nat, NEW b \in Nat, NEW c \in Nat, a <= b
    PROVE  a * c \in Nat /\ b * c \in Nat /\ a * c <= b * c
  OBVIOUS

\* What a quotient is bounded by.
LEMMA QuotientAtMost ==
    ASSUME NEW a \in Int, NEW b \in Nat \ {0}, NEW q \in Int, a < b * q + b
    PROVE  a \div b <= q
<1>1. /\ a \div b \in Int
      /\ b * (a \div b) <= a
  BY Quotient
<1>2. b * (a \div b) < b * q + b
  BY <1>1
<1> DEFINE p == a \div b
<1> HIDE DEF p
<1>3. ASSUME p \in Int, p > q, b * p < b * q + b PROVE FALSE
  <2>1. p >= q + 1
    BY <1>3
  <2>2. b * (p - (q + 1)) >= 0
    BY <1>3, <2>1
  <2> QED
    BY <1>3, <2>2
<1> QED
  BY <1>1, <1>2, <1>3 DEF p

\* A quotient is no smaller than what its divisor fits into it.
LEMMA QuotientAtLeast ==
    ASSUME NEW a \in Int, NEW b \in Nat \ {0}, NEW q \in Int, b * q <= a
    PROVE  a \div b >= q
<1>1. /\ a \div b \in Int
      /\ a < b * (a \div b) + b
  BY Quotient
<1>2. b * q < b * (a \div b) + b
  BY <1>1
<1> DEFINE p == a \div b
<1> HIDE DEF p
<1>3. ASSUME p \in Int, p < q, b * q < b * p + b PROVE FALSE
  <2>1. q - p - 1 >= 0
    BY <1>3
  <2>2. b * (q - p - 1) >= 0
    BY <1>3, <2>1
  <2> QED
    BY <1>3, <2>2
<1> QED
  BY <1>1, <1>2, <1>3 DEF p

\* f64::round, at least one pixel.
LEMMA RoundedType ==
    ASSUME NEW a \in Nat, NEW b \in Nat \ {0}
    PROVE  RoundedPixels(a, b) \in Nat \ {0}
<1>1. 2 * a + b \in Int /\ 2 * b \in Nat \ {0}
  OBVIOUS
<1>2. (2 * a + b) \div (2 * b) \in Int
  BY <1>1, Quotient
<1> QED
  BY <1>2 DEF RoundedPixels, Larger

\* Rounding to the nearest pixel never passes a whole number above the quotient.
LEMMA RoundedAtMost ==
    ASSUME NEW a \in Nat, NEW b \in Nat \ {0}, NEW q \in Nat \ {0}, a <= b * q
    PROVE  RoundedPixels(a, b) <= q
<1>1. 2 * a + b \in Int /\ 2 * b \in Nat \ {0} /\ b * q \in Nat
  OBVIOUS
<1>2. (2 * b) * q = 2 * (b * q)
  OBVIOUS
<1>3. 2 * a + b < (2 * b) * q + 2 * b
  BY <1>1, <1>2
<1>4. (2 * a + b) \div (2 * b) <= q
  BY <1>1, <1>3, QuotientAtMost
<1> QED
  BY <1>4 DEF RoundedPixels, Larger

\* Rounding to the nearest pixel never passes a whole number below the quotient.
LEMMA RoundedAtLeast ==
    ASSUME NEW a \in Nat, NEW b \in Nat \ {0}, NEW q \in Nat, b * q <= a
    PROVE  RoundedPixels(a, b) >= q
<1>1. 2 * a + b \in Int /\ 2 * b \in Nat \ {0} /\ b * q \in Nat
  OBVIOUS
<1>2. (2 * b) * q = 2 * (b * q)
  OBVIOUS
<1>3. (2 * b) * q <= 2 * a + b
  BY <1>1, <1>2
<1>4. (2 * a + b) \div (2 * b) >= q
  BY <1>1, <1>3, QuotientAtLeast
<1>5. (2 * a + b) \div (2 * b) \in Int
  BY <1>1, Quotient
<1> QED
  BY <1>4, <1>5 DEF RoundedPixels, Larger

-----------------------------------------------------------------------------
(* Sizes. *)

\* A pair is a function on the two axes.
LEMMA PairOf ==
    ASSUME NEW S, NEW a \in S, NEW b \in S
    PROVE  <<a, b>> \in [Axes -> S]
  BY DEF Axes

\* A pair is its two sides.
LEMMA SidesOf ==
    ASSUME NEW S, NEW s \in [Axes -> S]
    PROVE  s[1] \in S /\ s[2] \in S /\ s = <<s[1], s[2]>>
<1>1. s[1] \in S /\ s[2] \in S
  BY DEF Axes
<1>2. <<s[1], s[2]>> \in [Axes -> S]
  BY <1>1, PairOf
<1> QED
  BY <1>1, <1>2 DEF Axes

\* Pairs with the same sides are the same.
LEMMA SameSides ==
    ASSUME NEW S, NEW s \in [Axes -> S], NEW t \in [Axes -> S], s[1] = t[1], s[2] = t[2]
    PROVE  s = t
  BY SidesOf

\* Exchanging the sides twice changes nothing.
LEMMA SwapOf ==
    ASSUME NEW S, NEW s \in [Axes -> S]
    PROVE  /\ Swap(s) \in [Axes -> S]
           /\ Swap(s)[1] = s[2] /\ Swap(s)[2] = s[1]
           /\ Swap(Swap(s)) = s
  BY SidesOf, PairOf DEF Swap

\* A size within another, side by side.
LEMMA WithinSides ==
    ASSUME NEW s, NEW t
    PROVE  Within(s, t) <=> s[1] <= t[1] /\ s[2] <= t[2]
  BY DEF Within, Axes

-----------------------------------------------------------------------------
(* Resampling. *)

\* Not both sides of the box are unset.
Bounded(box) == box[1] # Unset \/ box[2] # Unset
Closed(box) == box[1] # Unset /\ box[2] # Unset

\* resize_dimensions gives a size: the side that decides the ratio is the box's.
LEMMA ResizedIs ==
    ASSUME NEW size \in Size, NEW box \in Box, Bounded(box), NEW fill \in BOOLEAN
    PROVE  LET d == ResizeDimensions(size, box, fill)
               byWidth == \/ box[2] = Unset
                          \/ box[1] # Unset /\ (fill <=> box[1] * size[2] >= box[2] * size[1])
           IN  /\ d \in Size
               /\ byWidth => /\ box[1] # Unset
                             /\ d[1] = box[1] /\ d[2] = RoundedPixels(size[2] * box[1], size[1])
               /\ ~byWidth => /\ box[2] # Unset
                              /\ d[2] = box[2] /\ d[1] = RoundedPixels(size[1] * box[2], size[2])
<1> DEFINE w == size[1]  h == size[2]  a == box[1]  b == box[2]
<1>1. w \in Nat \ {0} /\ h \in Nat \ {0} /\ a \in Nat /\ b \in Nat
  BY DEF Size, Box, Axes
<1> DEFINE byWidth == b = Unset \/ (a # Unset /\ (fill <=> a * h >= b * w))
           d == ResizeDimensions(size, box, fill)
<1>2. CASE byWidth
  <2>1. a # Unset /\ Larger(1, a) = a
    BY <1>1, <1>2 DEF Bounded, Unset, Larger
  <2>2. h * a \in Nat
    BY <1>1
  <2>3. RoundedPixels(h * a, w) \in Nat \ {0}
    BY <1>1, <2>2, RoundedType
  <2>4. d = <<a, RoundedPixels(h * a, w)>>
    BY <1>2, <2>1 DEF ResizeDimensions
  <2>5. a \in Nat \ {0}
    BY <1>1, <2>1 DEF Unset
  <2>6. d \in Size
    BY <2>3, <2>4, <2>5, PairOf DEF Size
  <2> QED
    BY <1>2, <2>1, <2>4, <2>6
<1>3. CASE ~byWidth
  <2>1. b # Unset /\ Larger(1, b) = b
    BY <1>1, <1>3 DEF Unset, Larger
  <2>2. w * b \in Nat
    BY <1>1
  <2>3. RoundedPixels(w * b, h) \in Nat \ {0}
    BY <1>1, <2>2, RoundedType
  <2>4. d = <<RoundedPixels(w * b, h), b>>
    BY <1>3, <2>1 DEF ResizeDimensions
  <2>5. b \in Nat \ {0}
    BY <1>1, <2>1 DEF Unset
  <2>6. d \in Size
    BY <2>3, <2>4, <2>5, PairOf DEF Size
  <2> QED
    BY <1>3, <2>1, <2>4, <2>6
<1> QED
  BY <1>2, <1>3

\* Fitting stays inside a closed box and touches a side of it.
LEMMA FitInside ==
    ASSUME NEW size \in Size, NEW box \in Box, Closed(box)
    PROVE  LET d == ResizeDimensions(size, box, FALSE)
           IN  Within(d, box) /\ \E i \in Axes : d[i] = box[i]
<1> DEFINE w == size[1]  h == size[2]  a == box[1]  b == box[2]  fill == FALSE
           d == ResizeDimensions(size, box, fill)
           byWidth == b = Unset \/ (a # Unset /\ (fill <=> a * h >= b * w))
<1>1. w \in Nat \ {0} /\ h \in Nat \ {0} /\ a \in Nat \ {0} /\ b \in Nat \ {0}
  BY DEF Size, Box, Axes, Closed, Unset
<1>2. h * a \in Nat /\ w * b \in Nat /\ a * h = h * a /\ b * w = w * b
  BY <1>1
<1>3. Bounded(box) /\ a # Unset /\ b # Unset /\ fill \in BOOLEAN
  BY DEF Bounded, Closed
<1>4. fill = FALSE
  OBVIOUS
<1> HIDE DEF d, fill
<1>5. CASE byWidth
  <2>1. d[1] = a /\ d[2] = RoundedPixels(h * a, w)
    BY <1>3, <1>5, ResizedIs DEF d
  <2>2. h * a < w * b
    BY <1>1, <1>2, <1>3, <1>4, <1>5
  <2>3. RoundedPixels(h * a, w) <= b
    BY <1>1, <1>2, <2>2, RoundedAtMost
  <2>4. Within(d, box) /\ \E i \in Axes : d[i] = box[i]
    BY <1>1, <2>1, <2>3, WithinSides DEF Axes
  <2> QED
    BY <2>4 DEF d, fill
<1>6. CASE ~byWidth
  <2>1. d[2] = b /\ d[1] = RoundedPixels(w * b, h)
    BY <1>3, <1>6, ResizedIs DEF d
  <2>2. w * b <= h * a
    BY <1>1, <1>2, <1>3, <1>4, <1>6
  <2>3. RoundedPixels(w * b, h) <= a
    BY <1>1, <1>2, <2>2, RoundedAtMost
  <2>4. Within(d, box) /\ \E i \in Axes : d[i] = box[i]
    BY <1>1, <2>1, <2>3, WithinSides DEF Axes
  <2> QED
    BY <2>4 DEF d, fill
<1> QED
  BY <1>5, <1>6

\* Filling covers it.
LEMMA FillCovers ==
    ASSUME NEW size \in Size, NEW box \in Box, Closed(box)
    PROVE  Within(box, ResizeDimensions(size, box, TRUE))
<1> DEFINE w == size[1]  h == size[2]  a == box[1]  b == box[2]  fill == TRUE
           d == ResizeDimensions(size, box, fill)
           byWidth == b = Unset \/ (a # Unset /\ (fill <=> a * h >= b * w))
<1>1. w \in Nat \ {0} /\ h \in Nat \ {0} /\ a \in Nat \ {0} /\ b \in Nat \ {0}
  BY DEF Size, Box, Axes, Closed, Unset
<1>2. h * a \in Nat /\ w * b \in Nat /\ a * h = h * a /\ b * w = w * b
  BY <1>1
<1>3. Bounded(box) /\ a # Unset /\ b # Unset /\ fill \in BOOLEAN
  BY DEF Bounded, Closed
<1>4. fill = TRUE
  OBVIOUS
<1> HIDE DEF d, fill
<1>5. CASE byWidth
  <2>1. d[1] = a /\ d[2] = RoundedPixels(h * a, w)
    BY <1>3, <1>5, ResizedIs DEF d
  <2>2. w * b <= h * a
    BY <1>1, <1>2, <1>3, <1>4, <1>5
  <2>3. RoundedPixels(h * a, w) >= b /\ RoundedPixels(h * a, w) \in Nat
    BY <1>1, <1>2, <2>2, RoundedAtLeast, RoundedType
  <2>4. Within(box, d)
    BY <1>1, <2>1, <2>3, WithinSides
  <2> QED
    BY <2>4 DEF d, fill
<1>6. CASE ~byWidth
  <2>1. d[2] = b /\ d[1] = RoundedPixels(w * b, h)
    BY <1>3, <1>6, ResizedIs DEF d
  <2>2. h * a <= w * b
    BY <1>1, <1>2, <1>3, <1>4, <1>6
  <2>3. RoundedPixels(w * b, h) >= a /\ RoundedPixels(w * b, h) \in Nat
    BY <1>1, <1>2, <2>2, RoundedAtLeast, RoundedType
  <2>4. Within(box, d)
    BY <1>1, <2>1, <2>3, WithinSides
  <2> QED
    BY <2>4 DEF d, fill
<1> QED
  BY <1>5, <1>6

\* The sides a box sets are no longer than the image's: both, or one of them.
Inner(box, size) == \A i \in Axes : box[i] <= size[i]
Touching(box, size) == \E i \in Axes : box[i] # Unset /\ box[i] <= size[i]

\* resize_dimensions does not make an image larger when the side that decides
\* does not: one side inside is enough to fit.
LEMMA NothingGrows ==
    ASSUME NEW size \in Size, NEW box \in Box, Bounded(box), NEW fill \in BOOLEAN,
           IF fill THEN Inner(box, size) ELSE Touching(box, size)
    PROVE  Within(ResizeDimensions(size, box, fill), size)
<1> DEFINE w == size[1]  h == size[2]  a == box[1]  b == box[2]
           d == ResizeDimensions(size, box, fill)
           byWidth == b = Unset \/ (a # Unset /\ (fill <=> a * h >= b * w))
<1>1. w \in Nat \ {0} /\ h \in Nat \ {0} /\ a \in Nat /\ b \in Nat
  BY DEF Size, Box, Axes
<1>2. h * a \in Nat /\ w * b \in Nat /\ a * h = h * a /\ b * w = w * b
  BY <1>1
<1> HIDE DEF d
<1>3. CASE byWidth
  <2>1. a # Unset /\ d[1] = a /\ d[2] = RoundedPixels(h * a, w)
    BY <1>3, ResizedIs DEF d
  <2>2. a <= w
    <3>1. CASE fill \/ b = Unset
      BY <2>1, <3>1 DEF Inner, Touching, Axes
    <3>2. CASE ~fill /\ b # Unset /\ ~(a <= w)
      <4>1. h * a < w * b
        BY <1>1, <1>2, <1>3, <3>2
      <4>2. b <= h
        BY <3>2 DEF Touching, Axes
      <4>3. w * b <= w * h
        BY <1>1, <4>2, ProductMonotone
      <4>4. w * h <= a * h
        BY <1>1, <3>2, ProductMonotone
      <4> QED
        BY <1>1, <1>2, <4>1, <4>3, <4>4
    <3> QED
      BY <3>1, <3>2
  <2>3. h * a <= w * h
    BY <1>1, <2>2, ProductMonotone
  <2>4. RoundedPixels(h * a, w) <= h
    BY <1>1, <1>2, <2>3, RoundedAtMost
  <2> QED
    BY <2>1, <2>2, <2>4, WithinSides DEF d
<1>4. CASE ~byWidth
  <2>1. b # Unset /\ d[2] = b /\ d[1] = RoundedPixels(w * b, h)
    BY <1>4, ResizedIs DEF d
  <2>2. b <= h
    <3>1. CASE fill \/ a = Unset
      BY <2>1, <3>1 DEF Inner, Touching, Axes
    <3>2. CASE ~fill /\ a # Unset /\ ~(b <= h)
      <4>1. h * a >= w * b
        BY <1>1, <1>2, <1>4, <3>2
      <4>2. a <= w
        BY <3>2 DEF Touching, Axes
      <4>3. a * h <= w * h
        BY <1>1, <4>2, ProductMonotone
      <4>4. w * h < b * w
        BY <1>1, <3>2
      <4> QED
        BY <1>1, <1>2, <4>1, <4>3, <4>4
    <3> QED
      BY <3>1, <3>2
  <2>3. w * b <= h * w
    BY <1>1, <2>2, ProductMonotone
  <2>4. RoundedPixels(w * b, h) <= w
    BY <1>1, <1>2, <2>3, RoundedAtMost
  <2> QED
    BY <2>1, <2>2, <2>4, WithinSides DEF d
<1> QED
  BY <1>3, <1>4

-----------------------------------------------------------------------------
(* Cropping. *)

\* gravity_anchor leaves room for the box, however near the edge the focus is.
LEMMA AnchorInside ==
    ASSUME NEW g \in Gravities, NEW container \in Nat, NEW length \in Nat
    PROVE  GravityAnchor(g, container, length) \in 0..(container - Smaller(length, container))
<1> DEFINE spare == container - Smaller(length, container)
           centred == (2 * container * g[2] - 10 * (container - spare)) \div 20
<1>1. spare \in Nat
  BY DEF Smaller
<1>2. spare \div 2 \in 0..spare
  BY <1>1
<1>3. g[1] \in {"start", "middle", "end", "focus"} /\ g[2] \in Nat
  BY DEF Gravities
<1>4. centred \in Int
  <2>1. 2 * container * g[2] - 10 * (container - spare) \in Int
    BY <1>1, <1>3
  <2> QED
    BY <2>1, Quotient
<1> HIDE DEF spare, centred
<1>5. Clamp(centred, 0, spare) \in 0..spare
  BY <1>1, <1>4 DEF Clamp, Larger, Smaller
<1>6. GravityAnchor(g, container, length) =
          CASE g[1] = "start" -> 0
            [] g[1] = "middle" -> spare \div 2
            [] g[1] = "end" -> spare
            [] g[1] = "focus" -> Clamp(centred, 0, spare)
  BY DEF GravityAnchor, spare, centred
<1>7. GravityAnchor(g, container, length) \in 0..spare
  BY <1>1, <1>2, <1>3, <1>5, <1>6
<1> QED
  BY <1>7 DEF spare

\* So crop_imm never clips: the box comes out whole wherever it fits.
LEMMA CroppedIs ==
    ASSUME NEW size \in Size, NEW box \in Box, NEW g \in [Axes -> Gravities]
    PROVE  CropTo(size, box, g) = [i \in Axes |-> Smaller(box[i], size[i])]
<1>1. ASSUME NEW i \in Axes
      PROVE  Smaller(box[i], size[i] - Smaller(GravityAnchor(g[i], size[i], box[i]), size[i]))
                = Smaller(box[i], size[i])
  <2> DEFINE at == GravityAnchor(g[i], size[i], box[i])
  <2>1. size[i] \in Nat /\ box[i] \in Nat /\ g[i] \in Gravities
    BY DEF Size, Box
  <2>2. at \in 0..(size[i] - Smaller(box[i], size[i]))
    BY <2>1, AnchorInside
  <2> HIDE DEF at
  <2>3. Smaller(box[i], size[i] - Smaller(at, size[i])) = Smaller(box[i], size[i])
    BY <2>1, <2>2 DEF Smaller
  <2> QED
    BY <2>3 DEF at
<1> QED
  BY <1>1 DEF CropTo, CropImm

\* apply_crop asks for a length within the image.
LEMMA CropLengthInside ==
    ASSUME NEW length \in CropLengths, NEW side \in Nat \ {0}
    PROVE  CropLength(length, side) \in 1..side
<1> DEFINE asked == CASE length[1] = "full" -> side
                      [] length[1] = "absolute" -> length[2]
                      [] length[1] = "relative" -> (2 * side * length[2] + 10) \div 20
<1>1. length[1] \in {"full", "absolute", "relative"} /\ length[2] \in Nat
  BY DEF CropLengths
<1>2. (2 * side * length[2] + 10) \div 20 \in Int
  <2>1. 2 * side * length[2] + 10 \in Int
    BY <1>1
  <2> QED
    BY <2>1, Quotient
<1>3. asked \in Int
  BY <1>1, <1>2
<1> HIDE DEF asked
<1>4. Clamp(asked, 1, side) \in 1..side
  BY <1>3 DEF Clamp, Larger, Smaller
<1> QED
  BY <1>4 DEF CropLength, asked

\* apply_crop gives the size it asks for.
LEMMA CropIs ==
    ASSUME NEW r \in RequestType, NEW size \in Size
    PROVE  /\ Crop(r, size) \in Size
           /\ r.crops => \A i \in Axes : Crop(r, size)[i] = CropLength(r.crop[i], size[i])
<1>1. CASE ~r.crops
  BY <1>1 DEF Crop
<1>2. CASE r.crops
  <2> DEFINE box == [i \in Axes |-> CropLength(r.crop[i], size[i])]
  <2>1. ASSUME NEW i \in Axes PROVE CropLength(r.crop[i], size[i]) \in 1..size[i]
    <3>1. r.crop[i] \in CropLengths /\ size[i] \in Nat \ {0}
      BY DEF RequestType, Size
    <3> QED
      BY <3>1, CropLengthInside
  <2>2. box \in Box /\ r.cropGravity \in [Axes -> Gravities]
    BY <2>1 DEF Box, Size, RequestType
  <2>3. Crop(r, size) = [i \in Axes |-> Smaller(box[i], size[i])]
    BY <1>2, <2>2, CroppedIs DEF Crop
  <2>4. ASSUME NEW i \in Axes
        PROVE  Smaller(box[i], size[i]) = CropLength(r.crop[i], size[i])
    BY <2>1 DEF Smaller, Size
  <2>5. \A i \in Axes : Crop(r, size)[i] = CropLength(r.crop[i], size[i])
    BY <2>3, <2>4
  <2> QED
    BY <2>1, <2>3, <2>5 DEF Size
<1> QED
  BY <1>1, <1>2

-----------------------------------------------------------------------------
(* The resize box. *)

\* resize_and_filter's rotation exchanges the sides or leaves them, and undoes
\* itself.
LEMMA RotateIs ==
    ASSUME NEW S, NEW r, NEW s \in [Axes -> S]
    PROVE  /\ Rotate(r, s) \in [Axes -> S]
           /\ Rotate(r, Rotate(r, s)) = s
           /\ Rotate(r, s) = s \/ Rotate(r, s) = Swap(s)
  BY SwapOf DEF Rotate

\* Rotating both keeps one size within the other.
LEMMA RotateWithin ==
    ASSUME NEW S, NEW T, NEW r, NEW s \in [Axes -> S], NEW t \in [Axes -> T]
    PROVE  Within(Rotate(r, s), Rotate(r, t)) <=> Within(s, t)
<1>1. /\ Swap(s)[1] = s[2] /\ Swap(s)[2] = s[1]
      /\ Swap(t)[1] = t[2] /\ Swap(t)[2] = t[1]
  BY SwapOf
<1> QED
  BY <1>1, WithinSides DEF Rotate

\* The scaled box sets the sides the request sets.
LEMMA ScaledIs ==
    ASSUME NEW r \in RequestType
    PROVE  /\ ScaledBox(r) \in Box
           /\ \A i \in Axes : ScaledBox(r)[i] = Unset <=> r.size[i] = Unset
<1>1. ASSUME NEW i \in Axes
      PROVE  RoundedPixels(r.size[i] * r.zoom[i] * r.dpr, Unit * Unit) \in Nat \ {0}
  <2>1. r.size[i] \in Nat /\ r.zoom[i] \in Nat /\ r.dpr \in Nat
    BY DEF RequestType, Box, Size
  <2>2. r.size[i] * r.zoom[i] \in Nat
    BY <2>1
  <2>3. r.size[i] * r.zoom[i] * r.dpr \in Nat
    BY <2>1, <2>2
  <2>4. Unit * Unit \in Nat \ {0}
    BY DEF Unit
  <2> QED
    BY <2>3, <2>4, RoundedType
<1> QED
  BY <1>1 DEF ScaledBox, Box, Unset

\* effective_resize_box on one axis of the final image, whose side is `side`.
GuardedSide(r, i, side) ==
    IF ScaledBox(r)[i] = Unset \/ r.enlarge THEN ScaledBox(r)[i]
    ELSE Smaller(ScaledBox(r)[i], side)
BoxSide(r, i, side) ==
    IF r.min[i] = Unset THEN GuardedSide(r, i, side)
    ELSE Larger(IF GuardedSide(r, i, side) = Unset THEN side ELSE GuardedSide(r, i, side),
                r.min[i])

\* A side of the box is unset when the request sets neither it nor its floor.
LEMMA BoxSideIs ==
    ASSUME NEW r \in RequestType, NEW i \in Axes, NEW side \in Nat \ {0}
    PROVE  /\ BoxSide(r, i, side) \in Nat
           /\ BoxSide(r, i, side) = Unset <=> r.size[i] = Unset /\ r.min[i] = Unset
<1>1. ScaledBox(r)[i] \in Nat /\ (ScaledBox(r)[i] = Unset <=> r.size[i] = Unset)
  BY ScaledIs DEF Box
<1>2. r.min[i] \in Nat
  BY DEF RequestType, Box
<1>3. GuardedSide(r, i, side) \in Nat /\ (GuardedSide(r, i, side) = Unset <=> r.size[i] = Unset)
  BY <1>1 DEF GuardedSide, Smaller, Unset
<1> QED
  BY <1>2, <1>3 DEF BoxSide, Larger, Unset

\* effective_resize_box: the box of the final image, turned back.
LEMMA BoxIs ==
    ASSUME NEW r \in RequestType, NEW size \in Size
    PROVE  LET box == EffectiveResizeBox(r, size)
               final == Rotate(r, size)
           IN  /\ box \in Box
               /\ final \in Size
               /\ Rotate(r, box) \in Box
               /\ \A i \in Axes : Rotate(r, box)[i] = BoxSide(r, i, final[i])
<1> DEFINE final == Rotate(r, size)
           floored == [i \in Axes |-> BoxSide(r, i, final[i])]
           box == EffectiveResizeBox(r, size)
<1>1. final \in Size
  BY RotateIs DEF Size
<1>2. floored \in Box
  <2>1. ASSUME NEW i \in Axes PROVE BoxSide(r, i, final[i]) \in Nat
    <3>1. final[i] \in Nat \ {0}
      BY <1>1 DEF Size
    <3> HIDE DEF final
    <3> QED
      BY <3>1, BoxSideIs
  <2> QED
    BY <2>1 DEF Box
<1>3. box = Rotate(r, floored)
  BY DEF EffectiveResizeBox, Rotate, BoxSide, GuardedSide
<1> HIDE DEF floored, box
<1>4. box \in Box /\ Rotate(r, box) = floored
  BY <1>2, <1>3, RotateIs DEF Box
<1> QED
  BY <1>1, <1>2, <1>4 DEF floored, box

-----------------------------------------------------------------------------
(* Every step gives a size. *)

\* The buffer resize_and_filter fills.
LEMMA ResampledType ==
    ASSUME NEW r \in RequestType, NEW size \in Size, NEW box \in Box
    PROVE  /\ Resampled(r, size, box) \in Size
           /\ ResizeMode(r, size, box) = "fill" =>
                 Closed(box) /\ Resampled(r, size, box) = ResizeDimensions(size, box, TRUE)
           /\ ResizeMode(r, size, box) = "fit" =>
                 Bounded(box) /\ Resampled(r, size, box) = ResizeDimensions(size, box, FALSE)
           /\ ResizeMode(r, size, box) \in {"none", "fit", "fill", "force"}
<1> DEFINE mode == ResizeMode(r, size, box)
<1>1. r.type \in {"fit", "fill", "force", "auto"}
  BY DEF RequestType, ResizeTypes
<1>2. mode \in {"none", "fit", "fill", "force"}
  BY <1>1 DEF ResizeMode
<1>3. mode = "fill" => Closed(box)
  BY DEF ResizeMode, Closed
<1>4. mode # "none" => Bounded(box)
  BY DEF ResizeMode, Bounded
<1> HIDE DEF mode
<1>5. Resampled(r, size, box) = CASE mode = "none" -> size
                                  [] mode = "force" -> [i \in Axes |-> Larger(1, box[i])]
                                  [] OTHER -> ResizeDimensions(size, box, mode = "fill")
  BY DEF Resampled, mode
<1>6. [i \in Axes |-> Larger(1, box[i])] \in Size
  BY DEF Size, Box, Larger
<1>7. mode \in {"fit", "fill"} => ResizeDimensions(size, box, mode = "fill") \in Size
  BY <1>4, ResizedIs
<1>8. Resampled(r, size, box) \in Size
  BY <1>2, <1>5, <1>6, <1>7
<1>9. mode = "fill" => (mode = "fill") = TRUE
  OBVIOUS
<1>10. mode = "fit" => (mode = "fill") = FALSE
  OBVIOUS
<1>11. mode = "fill" => Resampled(r, size, box) = ResizeDimensions(size, box, TRUE)
  BY <1>5, <1>9
<1>12. mode = "fit" => Resampled(r, size, box) = ResizeDimensions(size, box, FALSE)
  BY <1>5, <1>10
<1> QED
  BY <1>2, <1>3, <1>4, <1>8, <1>11, <1>12 DEF mode

\* What resize_and_filter has before it rotates: fill crops the buffer to the
\* box, the others leave it.
LEMMA ResizeIs ==
    ASSUME NEW r \in RequestType, NEW size \in Size, NEW box \in Box
    PROVE  /\ Resize(r, size, box) \in Size
           /\ Within(Resize(r, size, box), Resampled(r, size, box))
           /\ ResizeMode(r, size, box) = "fill" => Resize(r, size, box) = box
<1> DEFINE d == Resampled(r, size, box)
<1>1. d \in Size
  BY ResampledType
<1>2. CASE ResizeMode(r, size, box) = "fill"
  <2>1. Closed(box) /\ d = ResizeDimensions(size, box, TRUE)
    BY <1>2, ResampledType
  <2>2. Within(box, d)
    BY <2>1, FillCovers
  <2>3. r.gravity \in [Axes -> Gravities]
    BY DEF RequestType
  <2> HIDE DEF d
  <2>4. CropTo(d, box, r.gravity) = [i \in Axes |-> Smaller(box[i], d[i])]
    BY <1>1, <2>3, CroppedIs
  <2>5. [i \in Axes |-> Smaller(box[i], d[i])] = [i \in Axes |-> box[i]]
    BY <2>2 DEF Within, Smaller
  <2>6. Resize(r, size, box) = box
    BY <1>2, <2>4, <2>5 DEF Resize, d, Box
  <2>7. box \in Size
    BY <2>1 DEF Closed, Box, Size, Axes, Unset
  <2> QED
    BY <1>1, <2>2, <2>6, <2>7 DEF d
<1>3. CASE ResizeMode(r, size, box) # "fill"
  <2>1. Resize(r, size, box) = d
    BY <1>3 DEF Resize
  <2>2. Within(d, d)
    BY <1>1 DEF Within, Size
  <2> QED
    BY <1>1, <1>3, <2>1, <2>2
<1> QED
  BY <1>2, <1>3

\* apply_trim leaves at least a pixel.
LEMMA TrimmedIs ==
    ASSUME NEW side \in Nat \ {0}, NEW equal, NEW t \in TrimmedSides(side, equal)
    PROVE  t \in 1..side
  BY DEF TrimmedSides

\* The sides of a scaled JPEG.
LEMMA JpegScaledType ==
    ASSUME NEW size \in Size, NEW scale \in Nat \ {0}
    PROVE  JpegScaled(size, scale) \in Size
<1>1. ASSUME NEW i \in Axes PROVE JpegScaledDimension(size[i], scale) \in Nat \ {0}
  <2>1. size[i] \in Nat \ {0}
    BY DEF Size
  <2> DEFINE product == size[i] * scale
  <2>2. product \in Nat \ {0}
    BY <2>1
  <2> HIDE DEF product
  <2>3. (product + 8 - 1) \div 8 \in Nat \ {0}
    BY <2>2
  <2> QED
    BY <2>3 DEF JpegScaledDimension, DivCeil, product
<1> QED
  BY <1>1 DEF JpegScaled, Size

\* A JPEG is decoded to a size, scaled or not.
LEMMA JpegDecodedType ==
    ASSUME NEW r, NEW s, s.size \in Size
    PROVE  JpegDecoded(r, s) \in Size
<1> DEFINE scale == ChooseIdctSize(s.size, JpegScaled(s.size, PlannedScale(r, s)))
<1>1. scale \in {1, 2, 4, 8}
  BY DEF ChooseIdctSize
<1> HIDE DEF scale
<1>2. JpegScaled(s.size, scale) \in Size
  BY <1>1, JpegScaledType
<1> QED
  BY <1>2 DEF JpegDecoded, scale

\* apply_extend and apply_padding only add to the image.
LEMMA CanvasType ==
    ASSUME NEW r \in RequestType, NEW size \in Size
    PROVE  Extend(r, size) \in Size /\ Pad(r, Extend(r, size)) \in Size
<1>1. Extend(r, size) \in Size
  <2>1. [i \in Axes |-> Larger(size[i], ScaledBox(r)[i])] \in Size
    BY ScaledIs DEF Size, Box, Larger
  <2> QED
    BY <2>1 DEF Extend
<1>2. r.padding \in Box
  BY DEF RequestType
<1> QED
  BY <1>1, <1>2 DEF Pad, Size, Box

\* resize_and_filter, and the frames of an animation, with whatever box.
LEMMA FilteredType ==
    ASSUME NEW r \in RequestType, NEW size \in Size, NEW box \in Box
    PROVE  Rotate(r, Resize(r, size, box)) \in Size
  BY ResizeIs, RotateIs DEF Size

\* The requests and the sources of the jobs are well formed.
LEMMA Job ==
    ASSUME TypeOK
    PROVE  request \in RequestType /\ source.size \in Size /\ img \in Size
  BY DEF TypeOK, IsRequest, IsSource

\* The type of an image job's state.
LEMMA GeometryInit == Init => TypeOK
  BY GeometryAssumption DEF Init, TypeOK, Stages, IsSource

\* Every step of process_image_blocking leaves an image of at least one pixel by one.
LEMMA GeometryStep ==
    ASSUME TypeOK, [Next]_vars
    PROVE  TypeOK'
<1>1. /\ request \in RequestType /\ source.size \in Size /\ img \in Size
  BY Job
<1>2. CASE UNCHANGED vars
  BY <1>2 DEF vars, TypeOK
<1>3. ASSUME NEW next \in Stages, Goto(next), img' \in Size PROVE TypeOK'
  BY <1>3 DEF Goto, TypeOK
<1> USE DEF Stages
<1>4. CASE CheckRequest
  BY <1>1, <1>3, <1>4 DEF CheckRequest
<1>5. CASE Peek
  BY <1>1, <1>3, <1>5 DEF Peek
<1>6. CASE OpenAnimation
  BY <1>1, <1>3, <1>6 DEF OpenAnimation
<1>7. CASE DecodeScaled
  BY <1>1, <1>3, <1>7, JpegDecodedType DEF DecodeScaled
<1>8. CASE DecodeFull
  BY <1>1, <1>3, <1>8 DEF DecodeFull
<1>9. CASE CodecFails
  BY <1>1, <1>3, <1>9 DEF CodecFails
<1>10. CASE Orient
  BY <1>1, <1>3, <1>10, SwapOf DEF Orient, Size
<1>11. CASE Trim
  <2>1. img' \in Size
    <3>1. CASE request.trim
      <4>1. PICK w \in TrimmedSides(img[1], request.equal[1]),
                 h \in TrimmedSides(img[2], request.equal[2]) : img' = <<w, h>>
        BY <1>11, <3>1 DEF Trim
      <4>2. img[1] \in Nat \ {0} /\ img[2] \in Nat \ {0}
        BY <1>1 DEF Size, Axes
      <4>3. w \in Nat \ {0} /\ h \in Nat \ {0}
        BY <4>2, TrimmedIs
      <4> QED
        BY <4>1, <4>3, PairOf DEF Size
    <3> QED
      BY <1>1, <1>11, <3>1 DEF Trim
  <2> QED
    BY <1>3, <1>11, <2>1 DEF Trim
<1>12. CASE CropSource
  BY <1>1, <1>3, <1>12, CropIs DEF CropSource
<1>13. CASE ResizeAndFilter
  <2>1. EffectiveResizeBox(request, img) \in Box
    BY <1>1, BoxIs
  <2> QED
    BY <1>1, <1>3, <1>13, <2>1, FilteredType DEF ResizeAndFilter
<1>14. CASE GrowCanvas
  BY <1>1, <1>3, <1>14, CanvasType DEF GrowCanvas
<1>15. CASE Verify
  BY <1>1, <1>3, <1>15 DEF Verify
<1>16. CASE Watermark
  BY <1>1, <1>3, <1>16 DEF Watermark
<1>17. CASE Encode
  BY <1>1, <1>3, <1>17 DEF Encode
<1>18. CASE EncodeAnimation
  <2> DEFINE box == [i \in Axes |-> IF request.size[i] = Unset \/ request.enlarge
                                    THEN request.size[i]
                                    ELSE Smaller(request.size[i], img[i])]
  <2>1. box \in Box
    BY <1>1 DEF RequestType, Box, Size, Smaller
  <2>2. img' = Rotate(request, Resize(request, img, box))
    BY <1>18 DEF EncodeAnimation
  <2> HIDE DEF box
  <2>3. img' \in Size
    BY <1>1, <2>1, <2>2, FilteredType
  <2> QED
    BY <1>3, <1>18, <2>3 DEF EncodeAnimation
<1> QED
  BY <1>2, <1>4, <1>5, <1>6, <1>7, <1>8, <1>9, <1>10, <1>11, <1>12, <1>13, <1>14, <1>15,
     <1>16, <1>17, <1>18 DEF Next

-----------------------------------------------------------------------------
(* The size of the final image. *)

\* A closed box bounds what is resized: the buffer is the box, or fits in it, or
\* is cropped to it.
LEMMA ResizedWithinBox ==
    ASSUME NEW r \in RequestType, NEW size \in Size, NEW box \in Box, Closed(box)
    PROVE  /\ Within(Resize(r, size, box), box)
           /\ r.type \in {"force", "fill"} => Resize(r, size, box) = box
           /\ r.type = "fit" => \E i \in Axes : Resize(r, size, box)[i] = box[i]
<1> DEFINE mode == ResizeMode(r, size, box)
<1>1. mode \in {"fit", "fill", "force"} /\ (r.type # "auto" => mode = r.type)
  BY DEF ResizeMode, Closed, RequestType, ResizeTypes
<1>2. Within(box, box)
  BY DEF Within, Box
<1>3. CASE mode = "fill"
  BY <1>1, <1>2, <1>3, ResizeIs
<1>4. CASE mode = "force"
  <2>1. [i \in Axes |-> Larger(1, box[i])] = box
    BY DEF Closed, Larger, Box, Axes, Unset
  <2>2. Resize(r, size, box) = box
    BY <1>4, <2>1 DEF Resize, Resampled
  <2> QED
    BY <1>1, <1>2, <1>4, <2>2
<1>5. CASE mode = "fit"
  <2>1. Resize(r, size, box) = ResizeDimensions(size, box, FALSE)
    BY <1>5, ResampledType DEF Resize
  <2> QED
    BY <1>1, <1>5, <2>1, FitInside
<1> QED
  BY <1>1, <1>3, <1>4, <1>5

\* The resize box in the orientation of the final image is what was asked for,
\* with enlarge and floors that do not matter.
LEMMA BoxAsAsked ==
    ASSUME NEW r \in RequestType, NEW size \in Size, r.enlarge,
           \A i \in Axes : r.size[i] # Unset /\ r.min[i] <= ScaledBox(r)[i]
    PROVE  Rotate(r, EffectiveResizeBox(r, size)) = ScaledBox(r)
<1> DEFINE box == EffectiveResizeBox(r, size)
           final == Rotate(r, size)
<1>1. /\ Rotate(r, box) \in Box
      /\ \A i \in Axes : Rotate(r, box)[i] = BoxSide(r, i, final[i])
  BY BoxIs
<1>2. ScaledBox(r) \in Box /\ \A i \in Axes : ScaledBox(r)[i] # Unset
  BY ScaledIs
<1>3. r.min \in Box
  BY DEF RequestType
<1> HIDE DEF box, final
<1>4. \A i \in Axes : BoxSide(r, i, final[i]) = ScaledBox(r)[i]
  BY <1>2, <1>3 DEF BoxSide, GuardedSide, Larger, Box
<1>5. \A i \in Axes : Rotate(r, box)[i] = ScaledBox(r)[i]
  BY <1>1, <1>4
<1> QED
  BY <1>1, <1>2, <1>5 DEF Box, box

\* A rotation keeps which sides are set.
LEMMA RotateClosed ==
    ASSUME NEW r, NEW box \in Box
    PROVE  Closed(Rotate(r, box)) <=> Closed(box)
  BY SwapOf DEF Rotate, Closed, Box

\* A box is closed when the request names both sides.
LEMMA BoxClosed ==
    ASSUME NEW r \in RequestType, NEW size \in Size, \A i \in Axes : r.size[i] # Unset
    PROVE  Closed(EffectiveResizeBox(r, size))
<1> DEFINE box == EffectiveResizeBox(r, size)
           final == Rotate(r, size)
<1>1. /\ box \in Box /\ final \in Size
      /\ \A i \in Axes : Rotate(r, box)[i] = BoxSide(r, i, final[i])
  BY BoxIs
<1> HIDE DEF box, final
<1>2. ASSUME NEW i \in Axes PROVE BoxSide(r, i, final[i]) # Unset
  <2>1. final[i] \in Nat \ {0}
    BY <1>1 DEF Size
  <2> QED
    BY <2>1, BoxSideIs
<1>3. Closed(Rotate(r, box))
  BY <1>1, <1>2 DEF Closed, Axes
<1> QED
  BY <1>1, <1>3, RotateClosed DEF box

\* BoxIsFinal holds after resize_and_filter, and is only about that moment.
LEMMA BoxStep ==
    ASSUME TypeOK, BoxIsFinal, [Next]_vars
    PROVE  BoxIsFinal'
<1>1. /\ request \in RequestType /\ source.size \in Size /\ img \in Size
  BY Job
<1>2. CASE UNCHANGED vars
  BY <1>2 DEF vars, BoxIsFinal
<1>3. CASE ResizeAndFilter
  <2> DEFINE r == request
             box == EffectiveResizeBox(r, img)
             asked == ScaledBox(r)
             resized == Resize(r, img, box)
  <2>1. request' = request /\ img' = Rotate(r, resized)
    BY <1>3 DEF ResizeAndFilter, Goto
  <2>2. SUFFICES ASSUME r.enlarge, \A i \in Axes : r.size[i] # Unset /\ r.min[i] <= asked[i]
                 PROVE  /\ r.type \in {"force", "fill"} => img' = asked
                        /\ r.type = "fit" =>
                              Within(img', asked) /\ \E i \in Axes : img'[i] = asked[i]
    BY <2>1 DEF BoxIsFinal
  <2>3. box \in Box /\ asked \in Box
    BY <1>1, BoxIs, ScaledIs
  <2>4. Rotate(r, box) = asked
    BY <1>1, <2>2, BoxAsAsked
  <2>5. Closed(box)
    BY <1>1, <2>2, BoxClosed
  <2>6. resized \in Size
    BY <1>1, <2>3, ResizeIs
  <2> HIDE DEF r, box, asked
  <2>7. /\ Within(resized, box)
        /\ r.type \in {"force", "fill"} => resized = box
        /\ r.type = "fit" => \E i \in Axes : resized[i] = box[i]
    <3>1. r \in RequestType
      BY <1>1 DEF r
    <3> QED
      BY <1>1, <2>3, <2>5, <3>1, ResizedWithinBox
  <2> HIDE DEF resized
  <2>8. Within(Rotate(r, resized), Rotate(r, box))
    BY <2>3, <2>6, <2>7, RotateWithin DEF Size, Box
  <2>9. (\E i \in Axes : resized[i] = box[i]) =>
            \E i \in Axes : Rotate(r, resized)[i] = Rotate(r, box)[i]
    BY <2>3, <2>6, SwapOf DEF Rotate, Size, Box, Axes
  <2> QED
    BY <2>1, <2>4, <2>7, <2>8, <2>9
<1>4. ASSUME stage' # "canvas" PROVE BoxIsFinal'
  BY <1>4 DEF BoxIsFinal
<1>5. CASE Next /\ ~ResizeAndFilter
  <2>1. stage' # "canvas"
    BY <1>5 DEF Next, Goto, CheckRequest, Peek, OpenAnimation, DecodeScaled, DecodeFull,
       CodecFails, Orient, Trim, CropSource, GrowCanvas, Verify, Watermark, Encode,
       EncodeAnimation
  <2> QED
    BY <1>4, <2>1
<1> QED
  BY <1>2, <1>3, <1>5

\* Resampling makes nothing larger when the box is inside the image, or for fit
\* when it is on one side.
LEMMA ResampledWithin ==
    ASSUME NEW r \in RequestType, NEW size \in Size, NEW box \in Box,
           ResizeMode(r, size, box) = "fit" => Touching(box, size),
           ResizeMode(r, size, box) \in {"fill", "force"} => Inner(box, size)
    PROVE  Within(Resampled(r, size, box), size)
<1> DEFINE mode == ResizeMode(r, size, box)
<1>1. mode \in {"none", "fit", "fill", "force"}
  BY ResampledType
<1>2. CASE mode = "none"
  BY <1>2 DEF Resampled, Within, Size
<1>3. CASE mode = "force"
  <2>1. Inner(box, size)
    BY <1>3
  <2>2. Resampled(r, size, box) = [i \in Axes |-> Larger(1, box[i])]
    BY <1>3 DEF Resampled
  <2> QED
    BY <2>1, <2>2 DEF Within, Larger, Inner, Size, Box
<1>4. CASE mode = "fit"
  <2>1. Bounded(box) /\ Resampled(r, size, box) = ResizeDimensions(size, box, FALSE)
    BY <1>4, ResampledType
  <2> QED
    BY <1>4, <2>1, NothingGrows
<1>5. CASE mode = "fill"
  <2>1. Closed(box) /\ Resampled(r, size, box) = ResizeDimensions(size, box, TRUE)
    BY <1>5, ResampledType
  <2>2. Bounded(box)
    BY <2>1 DEF Bounded, Closed
  <2> QED
    BY <1>5, <2>1, <2>2, NothingGrows
<1> QED
  BY <1>1, <1>2, <1>3, <1>4, <1>5

\* The #36 guard: without enlarge and without a floor the box is inside.
LEMMA GuardedBox ==
    ASSUME NEW r \in RequestType, NEW size \in Size, ~r.enlarge, r.min = <<Unset, Unset>>
    PROVE  Inner(EffectiveResizeBox(r, size), size)
<1> DEFINE box == EffectiveResizeBox(r, size)
           final == Rotate(r, size)
<1>1. /\ box \in Box /\ final \in Size
      /\ \A i \in Axes : Rotate(r, box)[i] = BoxSide(r, i, final[i])
  BY BoxIs
<1>2. \A i \in Axes : r.min[i] = Unset
  BY DEF Axes
<1>3. ScaledBox(r) \in Box
  BY ScaledIs
<1> HIDE DEF box
<1>4. \A i \in Axes : BoxSide(r, i, final[i]) <= final[i]
  <2> HIDE DEF final
  <2> QED
    BY <1>1, <1>2, <1>3 DEF BoxSide, GuardedSide, Smaller, Unset, Size, Box
<1>5. Within(Rotate(r, box), Rotate(r, size))
  BY <1>1, <1>4 DEF Within
<1>6. Within(box, size)
  BY <1>1, <1>5, RotateWithin DEF Box, Size
<1> QED
  BY <1>6 DEF Inner, Within, box

\* NoUpscale, for one step.
LEMMA NoUpscaleStep ==
    ASSUME TypeOK, Next, stage = "resize", stage' = "canvas", ~request.enlarge,
           request.min = <<Unset, Unset>>
    PROVE  /\ Within(Resampled(request, img, EffectiveResizeBox(request, img)), img)
           /\ Within(Rotate(request, img'), img)
<1> DEFINE r == request
           box == EffectiveResizeBox(r, img)
           buffer == Resampled(r, img, box)
           resized == Resize(r, img, box)
<1>1. r \in RequestType /\ img \in Size
  BY Job
<1>2. box \in Box /\ Inner(box, img)
  BY <1>1, BoxIs, GuardedBox
<1>3. img' = Rotate(r, resized)
  BY DEF Next, Goto, CheckRequest, Peek, OpenAnimation, DecodeScaled, DecodeFull,
     CodecFails, Orient, Trim, CropSource, ResizeAndFilter, GrowCanvas, Verify, Watermark,
     Encode, EncodeAnimation
<1> HIDE DEF r, box
<1>4. ResizeMode(r, img, box) = "fit" => Touching(box, img)
  <2>1. ResizeMode(r, img, box) = "fit" => Bounded(box)
    BY <1>1, <1>2, ResampledType
  <2> QED
    BY <1>2, <2>1 DEF Touching, Inner, Bounded, Axes
<1>5. Within(buffer, img)
  BY <1>1, <1>2, <1>4, ResampledWithin
<1>6. resized \in Size /\ buffer \in Size /\ Within(resized, buffer)
  BY <1>1, <1>2, ResizeIs, ResampledType
<1>7. Rotate(r, img') = resized
  BY <1>3, <1>6, RotateIs DEF Size
<1>8. Within(resized, img)
  BY <1>1, <1>5, <1>6 DEF Within, Size
<1> QED
  BY <1>5, <1>7, <1>8 DEF r, box, buffer

-----------------------------------------------------------------------------
(* The output limit. *)

\* check_axis_bound bounds the scaled side: rounded to the nearest pixel it is
\* no more than the product rounded up, with factors of at least one.
LEMMA ScaledBounded ==
    ASSUME NEW r \in RequestType, NEW i \in Axes, r.size[i] # Unset
    PROVE  /\ AxisBound(r, i) \in Nat
           /\ ScaledBox(r)[i] <= AxisBound(r, i)
           /\ r.min[i] <= AxisBound(r, i)
<1> DEFINE n == r.size[i]
           zoom == r.zoom[i]
           z == Larger(zoom, Unit)
           d == Larger(r.dpr, Unit)
           a == n * zoom * r.dpr
           b == n * (z * d)
           q == DivCeil(b, Unit * Unit)
<1>1. /\ n \in Nat \ {0} /\ zoom \in Nat \ {0} /\ r.dpr \in Nat \ {0} /\ r.min[i] \in Nat
  BY DEF RequestType, Box, Size, Unset
<1>2. z \in Nat \ {0} /\ d \in Nat \ {0} /\ zoom <= z /\ r.dpr <= d
  BY <1>1 DEF Larger, Unit
<1> HIDE DEF z, d, n, zoom
<1>3. z * d \in Nat \ {0} /\ zoom * r.dpr \in Nat /\ zoom * r.dpr <= z * d
  <2>1. zoom * r.dpr <= z * r.dpr
    BY <1>1, <1>2, ProductMonotone
  <2>2. r.dpr * z <= d * z
    BY <1>1, <1>2, ProductMonotone
  <2>3. z * r.dpr = r.dpr * z /\ z * d = d * z
    BY <1>1, <1>2
  <2>4. z * d \in Nat \ {0} /\ zoom * r.dpr \in Nat /\ z * r.dpr \in Nat
    BY <1>1, <1>2
  <2> QED
    BY <2>1, <2>2, <2>3, <2>4
<1>4. a \in Nat /\ b \in Nat \ {0} /\ a <= b
  <2>1. (zoom * r.dpr) * n <= (z * d) * n
    BY <1>1, <1>3, ProductMonotone
  <2>2. a = (zoom * r.dpr) * n /\ b = (z * d) * n
    BY <1>1, <1>2
  <2>3. a \in Nat /\ b \in Nat \ {0}
    BY <1>1, <1>3, <2>2
  <2> QED
    BY <2>1, <2>2, <2>3
<1> HIDE DEF a, b
<1>5. q \in Nat \ {0} /\ a <= 4 * q
  BY <1>4 DEF DivCeil, Unit
<1>6. Unit * Unit = 4 /\ 4 \in Nat \ {0}
  BY DEF Unit
<1> HIDE DEF q
<1>7. RoundedPixels(a, 4) <= q /\ RoundedPixels(a, 4) \in Nat
  BY <1>4, <1>5, RoundedAtMost, RoundedType
<1>8. ScaledBox(r)[i] = RoundedPixels(a, 4)
  BY <1>6 DEF ScaledBox, a, n, zoom
<1>9. AxisBound(r, i) = Larger(q, r.min[i])
  BY DEF AxisBound, q, b, z, d, n, zoom
<1> QED
  BY <1>1, <1>5, <1>7, <1>8, <1>9 DEF Larger

\* So what resize_and_filter gives a request that names both sides is within
\* the bound, and so is what extend makes of it.
LEMMA FilteredBounded ==
    ASSUME NEW r \in RequestType, NEW size \in Size, \A i \in Axes : r.size[i] # Unset
    PROVE  \A i \in Axes :
              Rotate(r, Resize(r, size, EffectiveResizeBox(r, size)))[i] <= AxisBound(r, i)
<1> DEFINE box == EffectiveResizeBox(r, size)
           final == Rotate(r, size)
           resized == Resize(r, size, box)
<1>1. /\ box \in Box /\ final \in Size /\ Rotate(r, box) \in Box
      /\ \A i \in Axes : Rotate(r, box)[i] = BoxSide(r, i, final[i])
  BY BoxIs
<1>2. Closed(box)
  BY BoxClosed
<1> HIDE DEF box, final
<1>3. resized \in Size /\ Within(resized, box)
  BY <1>1, <1>2, ResizeIs, ResizedWithinBox
<1> HIDE DEF resized
<1>4. Within(Rotate(r, resized), Rotate(r, box)) /\ Rotate(r, resized) \in Size
  BY <1>1, <1>3, RotateWithin, RotateIs DEF Size, Box
<1>5. ASSUME NEW i \in Axes PROVE BoxSide(r, i, final[i]) <= AxisBound(r, i)
  <2>1. AxisBound(r, i) \in Nat /\ ScaledBox(r)[i] <= AxisBound(r, i) /\ r.min[i] <= AxisBound(r, i)
    BY ScaledBounded
  <2>2. ScaledBox(r)[i] \in Nat /\ ScaledBox(r)[i] # Unset
    BY ScaledIs DEF Box
  <2>3. r.min[i] \in Nat /\ final[i] \in Nat \ {0}
    BY <1>1 DEF RequestType, Box, Size
  <2>4. /\ GuardedSide(r, i, final[i]) \in Nat \ {Unset}
        /\ GuardedSide(r, i, final[i]) <= ScaledBox(r)[i]
    BY <2>2, <2>3 DEF GuardedSide, Smaller, Unset
  <2> QED
    BY <2>1, <2>2, <2>3, <2>4 DEF BoxSide, Larger
<1>6. ASSUME NEW i \in Axes PROVE Rotate(r, resized)[i] <= AxisBound(r, i)
  <2>1. Rotate(r, resized)[i] <= BoxSide(r, i, final[i])
    BY <1>1, <1>4 DEF Within
  <2>2. AxisBound(r, i) \in Nat /\ BoxSide(r, i, final[i]) \in Nat /\ Rotate(r, resized)[i] \in Nat
    BY <1>1, <1>4, ScaledBounded DEF Box, Size
  <2> QED
    BY <1>5, <2>1, <2>2
<1> QED
  BY <1>6 DEF box, resized

\* Past check_output_dimensions the request was within the limit; from there on
\* the image is too, unless padding has been added to it.
Admitted == stage \notin {"check", "too_large"} => CheckOutputDimensions(request)
BothSides == \A i \in Axes : request.size[i] # Unset
NoPadding == \A i \in Axes : request.padding[i] = 0
InLimit ==
    BothSides /\ (stage = "canvas" \/ (stage = "verify" /\ NoPadding)) => Within(img, MaxOutput)
EarlyInv == Admitted /\ InLimit

\* A job that was not admitted yet is within no limit.
LEMMA EarlyInit == Init => EarlyInv
  BY DEF Init, EarlyInv, Admitted, InLimit

\* Only padding takes an admitted job past the limit: each step of the job keeps
\* a request that names both sides in it.
LEMMA EarlyStep ==
    ASSUME TypeOK, EarlyInv, [Next]_vars
    PROVE  EarlyInv'
<1>1. request \in RequestType /\ img \in Size
  BY Job
<1>2. MaxOutput \in Size
  BY GeometryAssumption
<1>3. CASE UNCHANGED vars
  BY <1>3 DEF vars, EarlyInv, Admitted, InLimit, BothSides, NoPadding
<1> SUFFICES ASSUME Next PROVE EarlyInv'
  BY <1>3
<1>4. request' = request
  BY DEF Next, Goto, CheckRequest, Peek, OpenAnimation, DecodeScaled, DecodeFull,
     CodecFails, Orient, Trim, CropSource, ResizeAndFilter, GrowCanvas, Verify, Watermark,
     Encode, EncodeAnimation
<1>5. Admitted'
  BY <1>4 DEF Next, Goto, CheckRequest, Peek, OpenAnimation, DecodeScaled, DecodeFull,
     CodecFails, Orient, Trim, CropSource, ResizeAndFilter, GrowCanvas, Verify, Watermark,
     Encode, EncodeAnimation, EarlyInv, Admitted, CheckOutputDimensions
<1>6. CASE ResizeAndFilter
  <2>1. /\ stage' = "canvas" /\ CheckOutputDimensions(request)
        /\ img' = Rotate(request, Resize(request, img, EffectiveResizeBox(request, img)))
    BY <1>6 DEF ResizeAndFilter, Goto, EarlyInv, Admitted
  <2>2. SUFFICES ASSUME BothSides PROVE Within(img', MaxOutput)
    BY <1>4, <1>5 DEF EarlyInv, InLimit, BothSides
  <2>3. \A i \in Axes : img'[i] <= AxisBound(request, i)
    BY <1>1, <2>1, <2>2, FilteredBounded DEF BothSides
  <2>4. img' \in Size
    BY <1>1, <2>1, BoxIs, FilteredType
  <2>5. ASSUME NEW i \in Axes PROVE img'[i] <= MaxOutput[i]
    <3>1. AxisBound(request, i) \in Nat
      BY <1>1, <2>2, ScaledBounded DEF BothSides
    <3>2. AxisBound(request, i) <= MaxOutput[i]
      BY <2>1 DEF CheckOutputDimensions
    <3>3. img'[i] \in Nat /\ MaxOutput[i] \in Nat
      BY <1>2, <2>4 DEF Size
    <3> QED
      BY <2>3, <3>1, <3>2, <3>3
  <2> QED
    BY <2>5 DEF Within
<1>7. CASE GrowCanvas
  <2>1. /\ stage = "canvas" /\ stage' = "verify" /\ CheckOutputDimensions(request)
        /\ img' = Pad(request, Extend(request, img))
    BY <1>7 DEF GrowCanvas, Goto, EarlyInv, Admitted
  <2>2. SUFFICES ASSUME BothSides, NoPadding PROVE Within(img', MaxOutput)
    BY <1>4, <1>5, <2>1 DEF EarlyInv, InLimit, BothSides, NoPadding
  <2>3. Within(img, MaxOutput)
    BY <2>1, <2>2 DEF EarlyInv, InLimit
  <2>4. ASSUME NEW i \in Axes PROVE img'[i] <= MaxOutput[i]
    <3>1. AxisBound(request, i) \in Nat /\ ScaledBox(request)[i] <= AxisBound(request, i)
      BY <1>1, <2>2, ScaledBounded DEF BothSides
    <3>2. AxisBound(request, i) <= MaxOutput[i] /\ img[i] <= MaxOutput[i]
      BY <2>1, <2>3 DEF CheckOutputDimensions, Within
    <3>3. img[i] \in Nat /\ MaxOutput[i] \in Nat /\ ScaledBox(request)[i] \in Nat
      BY <1>1, <1>2, ScaledIs DEF Size, Box
    <3>4. Extend(request, img)[i] \in {img[i], Larger(img[i], ScaledBox(request)[i])}
      BY DEF Extend
    <3>5. Extend(request, img)[i] \in Nat /\ Extend(request, img)[i] <= MaxOutput[i]
      BY <3>1, <3>2, <3>3, <3>4 DEF Larger
    <3>6. img'[i] = Extend(request, img)[i] + 0
      BY <2>1, <2>2 DEF Pad, NoPadding
    <3> QED
      BY <3>5, <3>6
  <2> QED
    BY <2>4 DEF Within
<1>8. CASE ~ResizeAndFilter /\ ~GrowCanvas
  <2>1. stage' \notin {"canvas", "verify"}
    BY <1>8 DEF Next, Goto, CheckRequest, Peek, OpenAnimation, DecodeScaled, DecodeFull,
       CodecFails, Orient, Trim, CropSource, Verify, Watermark, Encode, EncodeAnimation
  <2> QED
    BY <1>5, <2>1 DEF EarlyInv, InLimit
<1> QED
  BY <1>6, <1>7, <1>8

\* EarlyOrNever, for one step.
LEMMA EarlyOrNeverStep ==
    ASSUME TypeOK, EarlyInv, Next, stage = "verify", stage' = "too_large_late"
    PROVE  \/ \E i \in Axes : request.size[i] = Unset
           \/ \E i \in Axes : request.padding[i] > 0
<1>1. ~Within(img, MaxOutput)
  BY DEF Next, Goto, CheckRequest, Peek, OpenAnimation, DecodeScaled, DecodeFull,
     CodecFails, Orient, Trim, CropSource, ResizeAndFilter, GrowCanvas, Verify, Watermark,
     Encode, EncodeAnimation
<1>2. request.padding \in Box
  BY Job DEF RequestType
<1>3. ~BothSides \/ ~NoPadding
  BY <1>1 DEF EarlyInv, InLimit
<1> QED
  BY <1>2, <1>3 DEF BothSides, NoPadding, Box

-----------------------------------------------------------------------------
(* Shrink-on-load. *)

\* Turning an image as autorotation does, or not.
Upright(turn, size) == IF turn THEN Swap(size) ELSE size

\* An image fits a box turned its way just when, turned back, it fits the box.
LEMMA UprightIs ==
    ASSUME NEW S, NEW T, NEW turn, NEW s \in [Axes -> S], NEW t \in [Axes -> T]
    PROVE  /\ Upright(turn, s) \in [Axes -> S]
           /\ Within(Upright(turn, s), t) <=> Within(s, Upright(turn, t))
           /\ Within(Upright(turn, s), Upright(turn, t)) <=> Within(s, t)
           /\ Upright(turn, s) \in {s, Swap(s)}
<1>1. /\ Swap(s) \in [Axes -> S] /\ Swap(s)[1] = s[2] /\ Swap(s)[2] = s[1]
      /\ Swap(t)[1] = t[2] /\ Swap(t)[2] = t[1]
  BY SwapOf
<1> QED
  BY <1>1, WithinSides DEF Upright

\* A side of more than four pixels has a size of its own at each scale, and none
\* beyond its own.
LEMMA ScalesApart ==
    ASSUME NEW side \in Nat, side > 4
    PROVE  /\ JpegScaledDimension(side, 1) \in Nat
           /\ JpegScaledDimension(side, 2) \in Nat
           /\ JpegScaledDimension(side, 4) \in Nat
           /\ JpegScaledDimension(side, 1) < JpegScaledDimension(side, 2)
           /\ JpegScaledDimension(side, 2) < JpegScaledDimension(side, 4)
           /\ JpegScaledDimension(side, 4) <= side
  BY DEF JpegScaledDimension, DivCeil

\* There the decoder takes the scale that was planned.
LEMMA ScaleAsPlanned ==
    ASSUME NEW size \in Size, \A i \in Axes : size[i] > 4, NEW planned \in {1, 2, 4}
    PROVE  /\ ChooseIdctSize(size, JpegScaled(size, planned)) = planned
           /\ Within(JpegScaled(size, planned), size)
<1> DEFINE D(i, s) == JpegScaledDimension(size[i], s)
<1>1. ASSUME NEW i \in Axes
      PROVE  /\ D(i, 1) \in Nat /\ D(i, 2) \in Nat /\ D(i, 4) \in Nat
             /\ D(i, 1) < D(i, 2) /\ D(i, 2) < D(i, 4) /\ D(i, 4) <= size[i]
  <2>1. size[i] \in Nat /\ size[i] > 4
    BY DEF Size
  <2> QED
    BY <2>1, ScalesApart
<1>2. \A s : \A i \in Axes : JpegScaled(size, s)[i] = D(i, s)
  BY DEF JpegScaled
<1>3. \A i \in Axes : size[i] \in Nat
  BY DEF Size
<1> HIDE DEF D
<1>4. CASE planned = 1
  BY <1>1, <1>2, <1>3, <1>4 DEF ChooseIdctSize, Within, Axes
<1>5. CASE planned = 2
  BY <1>1, <1>2, <1>3, <1>5 DEF ChooseIdctSize, Within, Axes
<1>6. CASE planned = 4
  BY <1>1, <1>2, <1>3, <1>6 DEF ChooseIdctSize, Within, Axes
<1> QED
  BY <1>4, <1>5, <1>6

\* The box of a smaller image is no larger, and sets the same sides.
LEMMA BoxShrinks ==
    ASSUME NEW r \in RequestType, NEW large \in Size, NEW small \in Size, Within(small, large)
    PROVE  LET a == EffectiveResizeBox(r, large)
               b == EffectiveResizeBox(r, small)
           IN  /\ a \in Box /\ b \in Box
               /\ Within(b, a)
               /\ \A i \in Axes : a[i] = Unset <=> b[i] = Unset
<1> DEFINE a == EffectiveResizeBox(r, large)
           b == EffectiveResizeBox(r, small)
           fa == Rotate(r, large)
           fb == Rotate(r, small)
           ra == Rotate(r, a)
           rb == Rotate(r, b)
<1>1. /\ a \in Box /\ fa \in Size /\ ra \in Box
      /\ \A i \in Axes : ra[i] = BoxSide(r, i, fa[i])
  BY BoxIs
<1>2. /\ b \in Box /\ fb \in Size /\ rb \in Box
      /\ \A i \in Axes : rb[i] = BoxSide(r, i, fb[i])
  BY BoxIs
<1>3. Within(fb, fa)
  BY RotateWithin DEF Size
<1> HIDE DEF fa, fb, a, b
<1>4. ASSUME NEW i \in Axes
      PROVE  /\ BoxSide(r, i, fb[i]) <= BoxSide(r, i, fa[i])
             /\ BoxSide(r, i, fa[i]) = Unset <=> BoxSide(r, i, fb[i]) = Unset
  <2>1. fa[i] \in Nat \ {0} /\ fb[i] \in Nat \ {0} /\ fb[i] <= fa[i]
    BY <1>1, <1>2, <1>3 DEF Size, Within
  <2>2. BoxSide(r, i, fa[i]) = Unset <=> BoxSide(r, i, fb[i]) = Unset
    BY <2>1, BoxSideIs
  <2>3. ScaledBox(r)[i] \in Nat /\ r.min[i] \in Nat
    BY ScaledIs DEF Box, RequestType
  <2>4. /\ GuardedSide(r, i, fa[i]) \in Nat /\ GuardedSide(r, i, fb[i]) \in Nat
        /\ GuardedSide(r, i, fb[i]) <= GuardedSide(r, i, fa[i])
        /\ GuardedSide(r, i, fb[i]) = Unset <=> GuardedSide(r, i, fa[i]) = Unset
    BY <2>1, <2>3 DEF GuardedSide, Smaller, Unset
  <2>5. BoxSide(r, i, fb[i]) <= BoxSide(r, i, fa[i])
    BY <2>1, <2>3, <2>4 DEF BoxSide, Larger
  <2> QED
    BY <2>2, <2>5
<1>5. Within(rb, ra) /\ \A i \in Axes : ra[i] = Unset <=> rb[i] = Unset
  BY <1>1, <1>2, <1>4 DEF Within
<1>6. Within(b, a)
  BY <1>1, <1>2, <1>5, RotateWithin DEF Box
<1>7. \A i \in Axes : a[i] = Unset <=> b[i] = Unset
  BY <1>1, <1>2, <1>5, SwapOf DEF Rotate, Box, Axes
<1> QED
  BY <1>1, <1>2, <1>6, <1>7 DEF a, b

\* The target that is planned with is no smaller than what the box asks for.
LEMMA TargetReaches ==
    ASSUME NEW r \in RequestType, NEW size \in Size, r.type # "auto"
    PROVE  LET box == EffectiveResizeBox(r, size)
               target == EffectiveResizeTarget(r, size)
           IN  /\ target \in Size
               /\ Bounded(box) => \E i \in Axes : box[i] # Unset /\ target[i] = box[i]
               /\ Closed(box) /\ r.type # "fit" => Within(box, target)
<1> DEFINE box == EffectiveResizeBox(r, size)
           target == EffectiveResizeTarget(r, size)
<1>1. box \in Box
  BY BoxIs
<1>2. r.type \in {"fit", "fill", "force"}
  BY DEF RequestType, ResizeTypes
<1>3. target = IF ~Bounded(box) THEN size
               ELSE IF ~Closed(box) \/ r.type = "fit" THEN ResizeDimensions(size, box, FALSE)
               ELSE IF r.type = "fill" THEN ResizeDimensions(size, box, TRUE)
               ELSE [i \in Axes |-> Larger(1, box[i])]
  BY <1>2 DEF EffectiveResizeTarget, Bounded, Closed
<1> HIDE DEF box, target
<1>4. ASSUME Bounded(box), NEW fill \in BOOLEAN
      PROVE  LET d == ResizeDimensions(size, box, fill)
             IN  d \in Size /\ \E i \in Axes : box[i] # Unset /\ d[i] = box[i]
  BY <1>1, <1>4, ResizedIs DEF Axes
<1>5. ASSUME Closed(box)
      PROVE  LET d == [i \in Axes |-> Larger(1, box[i])] IN d \in Size /\ d = box
  BY <1>1, <1>5 DEF Closed, Larger, Box, Size, Axes, Unset
<1>6. Closed(box) => Bounded(box)
  BY DEF Closed, Bounded
<1>7. Closed(box) => Within(box, ResizeDimensions(size, box, TRUE))
  BY <1>1, FillCovers
<1>8. Closed(box) => Within(box, box) /\ \E i \in Axes : box[i] # Unset
  BY <1>1 DEF Within, Box, Closed, Axes
<1>9. CASE ~Bounded(box)
  BY <1>3, <1>6, <1>9 DEF box, target
<1>10. CASE Bounded(box) /\ (~Closed(box) \/ r.type = "fit")
  <2>1. target = ResizeDimensions(size, box, FALSE)
    BY <1>3, <1>10
  <2> QED
    BY <1>4, <1>10, <2>1 DEF box, target
<1>11. CASE Closed(box) /\ r.type = "fill"
  <2>1. target = ResizeDimensions(size, box, TRUE)
    BY <1>3, <1>6, <1>11
  <2> QED
    BY <1>4, <1>6, <1>7, <1>11, <2>1 DEF box, target
<1>12. CASE Closed(box) /\ r.type = "force"
  <2>1. target = [i \in Axes |-> Larger(1, box[i])]
    BY <1>3, <1>6, <1>12
  <2>2. target = box /\ target \in Size
    BY <1>5, <1>12, <2>1
  <2> QED
    BY <1>8, <1>12, <2>2 DEF box, target
<1> QED
  BY <1>2, <1>6, <1>9, <1>10, <1>11, <1>12

\* Resizing a smaller image that still covers the target makes nothing larger.
LEMMA CoversTarget ==
    ASSUME NEW r \in RequestType, r.type # "auto", NEW large \in Size, NEW small \in Size,
           Within(small, large), Within(EffectiveResizeTarget(r, large), small)
    PROVE  Within(Resampled(r, small, EffectiveResizeBox(r, small)), small)
<1> DEFINE a == EffectiveResizeBox(r, large)
           b == EffectiveResizeBox(r, small)
           target == EffectiveResizeTarget(r, large)
<1>1. /\ a \in Box /\ b \in Box /\ Within(b, a)
      /\ \A i \in Axes : a[i] = Unset <=> b[i] = Unset
  BY BoxShrinks
<1>2. /\ target \in Size
      /\ Bounded(a) => \E i \in Axes : a[i] # Unset /\ target[i] = a[i]
      /\ Closed(a) /\ r.type # "fit" => Within(a, target)
  BY TargetReaches
<1>3. Within(target, small)
  OBVIOUS
<1> HIDE DEF a, b, target
<1>4. ASSUME ResizeMode(r, small, b) = "fit" PROVE Touching(b, small)
  <2>1. Bounded(a)
    BY <1>1, <1>4, ResampledType DEF Bounded, Axes
  <2>2. PICK i \in Axes : a[i] # Unset /\ target[i] = a[i]
    BY <1>2, <2>1
  <2>3. b[i] # Unset /\ b[i] <= a[i] /\ a[i] <= small[i]
    BY <1>1, <1>3, <2>2 DEF Within
  <2>4. b[i] <= small[i]
    BY <1>1, <2>3 DEF Box, Size
  <2> QED
    BY <2>3, <2>4 DEF Touching
<1>5. ASSUME ResizeMode(r, small, b) \in {"fill", "force"} PROVE Inner(b, small)
  <2>1. Closed(b) /\ r.type # "fit"
    BY <1>5 DEF ResizeMode, Closed
  <2>2. Closed(a)
    BY <1>1, <2>1 DEF Closed, Axes
  <2>3. Within(a, target)
    BY <1>2, <2>1, <2>2
  <2> QED
    BY <1>1, <1>2, <1>3, <2>3 DEF Within, Inner, Box, Size
<1>6. Within(Resampled(r, small, b), small)
  BY <1>1, <1>4, <1>5, ResampledWithin
<1> QED
  BY <1>6 DEF b

\* What decode_jpeg_scaled gives, turned upright, covers the target.
LEMMA DecodedCovers ==
    ASSUME NEW r \in RequestType, NEW s, s.size \in Size, r.type # "auto",
           \A i \in Axes : s.size[i] > 4, JpegDecoded(r, s) # s.size
    PROVE  LET turn == Turns(r, s)
               large == Upright(turn, s.size)
               small == Upright(turn, JpegDecoded(r, s))
           IN  /\ large \in Size /\ small \in Size
               /\ Within(small, large)
               /\ Within(EffectiveResizeTarget(r, large), small)
<1> DEFINE turn == Turns(r, s)
           large == Upright(turn, s.size)
           target == EffectiveResizeTarget(r, large)
           planned == PlannedScale(r, s)
           small == Upright(turn, JpegScaled(s.size, planned))
<1>1. large \in Size
  BY UprightIs DEF Size
<1>2. target \in Size
  BY <1>1, TargetReaches
<1>3. planned = SelectJpegDctScale(s.size, Upright(turn, target))
  BY DEF PlannedScale, Upright
<1>4. planned # 8
  BY DEF JpegDecoded
<1>5. planned \in {1, 2, 4} /\ Within(Upright(turn, target), JpegScaled(s.size, planned))
  <2> HIDE DEF target, turn
  <2> QED
    BY <1>3, <1>4 DEF SelectJpegDctScale
<1> HIDE DEF planned, target, large
<1>6. /\ ChooseIdctSize(s.size, JpegScaled(s.size, planned)) = planned
      /\ Within(JpegScaled(s.size, planned), s.size)
  BY <1>5, ScaleAsPlanned
<1>7. JpegDecoded(r, s) = JpegScaled(s.size, planned)
  BY <1>4, <1>6 DEF JpegDecoded, planned
<1>8. JpegScaled(s.size, planned) \in Size
  BY <1>5, JpegScaledType
<1>9. small \in Size
  BY <1>8, UprightIs DEF Size
<1>10. Within(small, large)
  BY <1>6, <1>8, UprightIs DEF Size, large
<1>11. Within(target, small)
  BY <1>2, <1>5, <1>8, UprightIs DEF Size
<1> QED
  BY <1>1, <1>7, <1>9, <1>10, <1>11 DEF target, large

\* Up to the resize step a JPEG that is neither trimmed nor cropped is the file
\* in full or as decode_jpeg_scaled decodes it, upright from Orient on.
Uncut == source.kind = "jpeg" /\ ~request.trim /\ ~request.crops
InHand == {source.size, JpegDecoded(request, source)}
AsDecoded ==
    Uncut =>
        /\ stage = "orient" => img \in InHand
        /\ stage \in {"trim", "crop", "resize"} =>
               \E size \in InHand : img = Upright(Turns(request, source), size)

\* Nothing is decoded at first.
LEMMA AsDecodedInit == Init => AsDecoded
  BY DEF Init, AsDecoded

\* Up to resize_and_filter no step gives an uncut JPEG a third size.
LEMMA AsDecodedStep ==
    ASSUME AsDecoded, [Next]_vars
    PROVE  AsDecoded'
<1>1. CASE UNCHANGED vars
  BY <1>1 DEF vars, AsDecoded, Uncut, InHand
<1> SUFFICES ASSUME Next PROVE AsDecoded'
  BY <1>1
<1>2. request' = request /\ source' = source
  BY DEF Next, Goto, CheckRequest, Peek, OpenAnimation, DecodeScaled, DecodeFull,
     CodecFails, Orient, Trim, CropSource, ResizeAndFilter, GrowCanvas, Verify, Watermark,
     Encode, EncodeAnimation
<1>3. InHand' = InHand /\ Uncut' = Uncut /\ Turns(request, source)' = Turns(request, source)
  BY <1>2 DEF InHand, Uncut
<1> HIDE DEF InHand
<1>4. SUFFICES ASSUME Uncut
               PROVE  /\ stage' = "orient" => img' \in InHand
                      /\ stage' \in {"trim", "crop", "resize"} =>
                             \E size \in InHand : img' = Upright(Turns(request, source), size)
  BY <1>3 DEF AsDecoded
<1>5. CASE DecodeScaled \/ DecodeFull
  BY <1>5 DEF DecodeScaled, DecodeFull, Goto, InHand
<1>6. CASE Orient
  <2>1. stage' = "trim" /\ img \in InHand /\ img' = Upright(Turns(request, source), img)
    BY <1>4, <1>6 DEF Orient, Goto, AsDecoded, Upright
  <2> QED
    BY <2>1
<1>7. CASE Trim
  BY <1>4, <1>7 DEF Trim, Goto, AsDecoded, Uncut
<1>8. CASE CropSource
  BY <1>4, <1>8 DEF CropSource, Goto, AsDecoded, Uncut, Crop
<1>9. CASE ~(DecodeScaled \/ DecodeFull \/ Orient \/ Trim \/ CropSource)
  <2>1. stage' \notin {"orient", "trim", "crop", "resize"}
    BY <1>4, <1>9 DEF Next, Goto, CheckRequest, Peek, OpenAnimation, Animation,
       CodecFails, ResizeAndFilter, GrowCanvas, Verify, Watermark, Encode, EncodeAnimation, Uncut
  <2> QED
    BY <2>1
<1> QED
  BY <1>5, <1>6, <1>7, <1>8, <1>9

\* NeverDecodesBelowTarget, for one step.
LEMMA NeverBelowStep ==
    ASSUME TypeOK, AsDecoded, stage = "resize", source.kind = "jpeg",
           ~request.trim, ~request.crops, request.type # "auto",
           \A i \in Axes : source.size[i] > 4,
           img \notin {source.size, Swap(source.size)}
    PROVE  Within(Resampled(request, img, EffectiveResizeBox(request, img)), img)
<1> DEFINE turn == Turns(request, source)
<1>1. request \in RequestType /\ source.size \in Size
  BY Job
<1>2. PICK size \in InHand : img = Upright(turn, size)
  BY DEF AsDecoded, Uncut
<1>3. size # source.size
  BY <1>1, <1>2 DEF Upright
<1>4. /\ img = Upright(turn, JpegDecoded(request, source))
      /\ JpegDecoded(request, source) # source.size
  BY <1>2, <1>3 DEF InHand
<1> DEFINE large == Upright(turn, source.size)
<1>5. /\ large \in Size /\ img \in Size /\ Within(img, large)
      /\ Within(EffectiveResizeTarget(request, large), img)
  BY <1>1, <1>4, DecodedCovers
<1> HIDE DEF large
<1> QED
  BY <1>1, <1>5, CoversTarget

-----------------------------------------------------------------------------
(* The steps of ImageRender are steps of ImageGeometry. *)

\* The geometry's next-state relation allows each step of the rendering.
LEMMA RenderStep ==
    ASSUME [RNext]_rvars
    PROVE  [Next]_vars
<1>1. CASE UNCHANGED rvars
  BY <1>1 DEF rvars
<1>2. CASE RNext
  BY <1>2 DEF RNext, Unseen, ROpenAnimation, RDecode, ROrient, RResizeAndFilter, RGrowCanvas,
     RWatermark, REncode, REncodeAnimation, Next
<1> QED
  BY <1>1, <1>2

\* ImageRender implements ImageGeometry: what it adds to a job's state never
\* changes what process_image_blocking does to the image's size, so all that is
\* proved of the sizes holds of the rendering too.
THEOREM RenderImplementsGeometry == RSpec => Spec
<1>1. RInit => Init
  BY DEF RInit
<1>2. [RNext]_rvars => [Next]_vars
  BY RenderStep
<1> QED
  BY <1>1, <1>2, PTL DEF RSpec, Spec

\* What the size properties need of every state.
SizeInv == TypeOK /\ BoxIsFinal /\ EarlyInv /\ AsDecoded

\* Every step of process_image_blocking gives an image of at least one pixel by
\* one, BoxIsFinal holds of what resize_and_filter gives, past
\* check_output_dimensions nothing exceeds the limit but by padding, and until
\* it is resized a JPEG is one of the two sizes its decoders give.
THEOREM SizesInvariant == Spec => []SizeInv
<1>1. Init => SizeInv
  BY GeometryInit, EarlyInit, AsDecodedInit DEF SizeInv, BoxIsFinal, Init
<1>2. SizeInv /\ [Next]_vars => SizeInv'
  BY GeometryStep, BoxStep, EarlyStep, AsDecodedStep DEF SizeInv
<1> QED
  BY <1>1, <1>2, PTL DEF Spec

\* The final size is what was asked for: with enlarge, force and fill give
\* exactly the scaled box, fit stays inside it and touches a side, however
\* resize_and_filter then turns the image.
THEOREM BoxFinal == Spec => []BoxIsFinal
<1>1. SizeInv => BoxIsFinal
  BY DEF SizeInv
<1> QED
  BY <1>1, SizesInvariant, PTL

\* The #36 guard: without enlarge and without floors resize_and_filter never
\* resamples to more pixels than it has, on either side, for any type of resize.
THEOREM NeverUpscales == Spec => NoUpscale
<1> DEFINE A == stage = "resize" /\ stage' = "canvas" /\ ~request.enlarge
                  /\ request.min = <<Unset, Unset>> =>
                /\ Within(Resampled(request, img, EffectiveResizeBox(request, img)), img)
                /\ Within(Rotate(request, img'), img)
<1>1. SizeInv /\ [Next]_vars => [A]_vars
  BY NoUpscaleStep DEF SizeInv
<1>2. NoUpscale <=> [][A]_vars
  BY DEF NoUpscale
<1> QED
  BY <1>1, <1>2, SizesInvariant, PTL DEF Spec

\* check_output_dimensions is final for a request that names both sides and adds
\* no padding: such a job is never refused after its source was decoded.
THEOREM RefusedEarly == Spec => EarlyOrNever
<1> DEFINE A == stage = "verify" /\ stage' = "too_large_late" =>
                  \/ \E i \in Axes : request.size[i] = Unset
                  \/ \E i \in Axes : request.padding[i] > 0
<1>1. SizeInv /\ [Next]_vars => [A]_vars
  BY EarlyOrNeverStep DEF SizeInv
<1>2. EarlyOrNever <=> [][A]_vars
  BY DEF EarlyOrNever
<1> QED
  BY <1>1, <1>2, SizesInvariant, PTL DEF Spec

\* Shrink-on-load never decodes below the target: a JPEG that select_jpeg_dct_scale
\* shrank is only scaled down by resize_and_filter, for any request that does not
\* trim, crop or leave the choice of the resize to the orientation.
THEOREM NeverBelowTarget == Spec => NeverDecodesBelowTarget
<1> DEFINE A == stage = "resize" /\ source.kind = "jpeg"
                  /\ ~request.trim /\ ~request.crops /\ request.type # "auto"
                  /\ (\A i \in Axes : source.size[i] > 4)
                  /\ img \notin {source.size, Swap(source.size)}
                => Within(Resampled(request, img, EffectiveResizeBox(request, img)), img)
<1>1. SizeInv /\ [Next]_vars => [A]_vars
  BY NeverBelowStep DEF SizeInv
<1>2. NeverDecodesBelowTarget <=> [][A]_vars
  BY DEF NeverDecodesBelowTarget
<1> QED
  BY <1>1, <1>2, SizesInvariant, PTL DEF Spec

-----------------------------------------------------------------------------
(* Reading an AVIF container. *)

\* A set that has 0, and with a number the next one, has every number.
LEMMA SetInduction ==
    ASSUME NEW S, 0 \in S, \A n \in Nat : n \in S => n + 1 \in S
    PROVE  Nat \subseteq S
<1> SUFFICES ASSUME Nat \ S # {} PROVE FALSE
  OBVIOUS
<1>1. PICK x \in Nat \ S : \A y \in Nat \ S : ~(y < x)
  <2>1. IsWellFoundedOn(OpToRel(<, Nat), Nat)
    BY NatLessThanWellFounded
  <2>2. PICK x \in Nat \ S : \A y \in Nat \ S : ~(<<y, x>> \in OpToRel(<, Nat))
    <3>1. Nat \ S \subseteq Nat
      OBVIOUS
    <3> QED
      BY <2>1, <3>1, WFMin, Zenon
  <2>3. ASSUME NEW y \in Nat \ S PROVE ~(y < x)
    BY <2>2, Zenon DEF OpToRel
  <2> QED
    BY <2>3
<1>2. x # 0 /\ x \in Nat
  BY <1>1
<1>3. x - 1 \in Nat /\ x - 1 < x /\ (x - 1) + 1 = x
  BY <1>2
<1>4. x - 1 \in S
  BY <1>1, <1>3
<1> QED
  BY <1>1, <1>3, <1>4

\* walk_boxes visits a prefix of the boxes, no longer than its budget; it is all
\* of them when each can be read and the budget is enough.
LEMMA WalkIs ==
    ASSUME NEW S, NEW boxes \in Seq(S), NEW budget \in Nat
    PROVE  LET visited == walk_boxes(boxes, budget)
           IN  /\ visited \in Seq(S)
               /\ Len(visited) <= budget /\ Len(visited) <= Len(boxes)
               /\ \A i \in 1..Len(visited) : visited[i] = boxes[i]
               /\ Unbroken(boxes) /\ Len(boxes) <= budget => visited = boxes
<1> DEFINE N == Len(boxes)
           Reaches(n) == n <= N /\ n <= budget /\ \A i \in 1..n : read_box_header(boxes[i])
           stop == CHOOSE n \in 0..N : Reaches(n) /\ ~Reaches(n + 1)
           visited == SubSeq(boxes, 1, stop)
<1>n. N \in Nat
  OBVIOUS
<1>1. \E n \in 0..N : Reaches(n) /\ ~Reaches(n + 1)
  <2> SUFFICES ASSUME \A n \in 0..N : Reaches(n) => Reaches(n + 1) PROVE FALSE
    OBVIOUS
  <2> DEFINE R == {n \in Nat : Reaches(n)}
  <2>1. 0 \in R
    BY <1>n
  <2>2. ASSUME NEW n \in Nat, n \in R PROVE n + 1 \in R
    <3>1. n \in 0..N
      BY <1>n, <2>2
    <3>2. Reaches(n + 1)
      BY <2>2, <3>1
    <3> HIDE DEF Reaches
    <3> QED
      BY <3>2
  <2>3. Nat \subseteq R
    <3> HIDE DEF R
    <3> QED
      BY <2>1, <2>2, SetInduction
  <2>4. N + 1 \in R
    BY <1>n, <2>3
  <2> QED
    BY <1>n, <2>4
<1>2. stop \in 0..N /\ Reaches(stop) /\ ~Reaches(stop + 1)
  <2> HIDE DEF Reaches, N
  <2> QED
    BY <1>1
<1>3. walk_boxes(boxes, budget) = visited
  BY DEF walk_boxes
<1> HIDE DEF stop
<1>4. /\ visited \in Seq(S) /\ Len(visited) = stop
      /\ \A i \in 1..stop : visited[i] = boxes[i]
  BY <1>2
<1>5. ASSUME Unbroken(boxes), N <= budget PROVE visited = boxes
  <2>1. \A i \in 1..N : read_box_header(boxes[i])
    BY <1>5 DEF Unbroken
  <2>2. stop = N
    BY <1>n, <1>2, <1>5, <2>1
  <2> QED
    BY <1>4, <2>2
<1> HIDE DEF visited
<1> QED
  BY <1>2, <1>3, <1>4, <1>5

\* What is found is among what was visited, and is one at most.
LEMMA FirstBoxIs ==
    ASSUME NEW S, NEW visited \in Seq(S), NEW type
    PROVE  /\ \A b \in FirstBox(visited, type) : b \in S /\ b.type = type
           /\ \A b \in FirstBox(visited, type) : b \in Range(visited)
           /\ IsOption(FirstBox(visited, type))
<1> DEFINE I == {i \in DOMAIN visited : visited[i].type = type
                                        /\ \A j \in 1..i - 1 : ~(visited[j].type = type)}
<1>1. FirstBox(visited, type) = {visited[i] : i \in I}
  BY DEF FirstBox, First
<1>2. ASSUME NEW i \in I, NEW j \in I PROVE i = j
  <2>1. i \in Nat \ {0} /\ j \in Nat \ {0}
    OBVIOUS
  <2>2. ~(i < j) /\ ~(j < i)
    BY <2>1
  <2> QED
    BY <2>1, <2>2
<1>3. \A i \in I : visited[i] \in S /\ visited[i].type = type /\ visited[i] \in Range(visited)
  BY DEF Range
<1> HIDE DEF I
<1> QED
  BY <1>1, <1>2, <1>3 DEF IsOption

\* The entry of an item is one of the entries, and one at most.
LEMMA EntryOfIs ==
    ASSUME NEW S, NEW entries \in Seq(S), NEW item
    PROVE  /\ EntryOf(entries, item) \subseteq S
           /\ IsOption(EntryOf(entries, item))
<1> DEFINE I == {i \in DOMAIN entries :
                    /\ entries[i].item = item \/ ~entries[i].whole
                    /\ \A j \in 1..i - 1 : ~(entries[j].item = item \/ ~entries[j].whole)}
<1>1. EntryOf(entries, item) = {e \in {entries[i] : i \in I} : e.whole}
  BY DEF EntryOf, First
<1>2. ASSUME NEW i \in I, NEW j \in I PROVE i = j
  <2>1. i \in Nat \ {0} /\ j \in Nat \ {0}
    OBVIOUS
  <2>2. ~(i < j) /\ ~(j < i)
    BY <2>1
  <2> QED
    BY <2>1, <2>2
<1>3. \A i \in I : entries[i] \in S
  OBVIOUS
<1> HIDE DEF I
<1> QED
  BY <1>1, <1>2, <1>3 DEF IsOption

\* The element of an option.
LEMMA TheIs ==
    ASSUME NEW option, NEW x \in option
    PROVE  /\ The(option) \in option
           /\ IsOption(option) => The(option) = x
  BY DEF The, IsOption

\* A sequence whose elements are in S.
LEMMA SequenceIn ==
    ASSUME NEW s, NEW S, IsSequence(s), Range(s) \subseteq S
    PROVE  s \in Seq(S)
  BY DEF IsSequence

-----------------------------------------------------------------------------
(* Composing the transforms of an item. *)

Transforms == [mirror : BOOLEAN, by : 0..3]

\* Transform::then gives a transform.
LEMMA ThenType ==
    ASSUME NEW t \in Transforms, NEW op \in Transforms
    PROVE  Then(t, op) \in Transforms
<1>1. t.by \in 0..3 /\ op.by \in 0..3 /\ t.mirror \in BOOLEAN /\ op.mirror \in BOOLEAN
  BY DEF Transforms
<1>2. (op.by + 4 - t.by) % 4 \in 0..3 /\ (t.by + op.by) % 4 \in 0..3
  BY <1>1
<1>3. (t.mirror # op.mirror) \in BOOLEAN
  BY <1>1
<1> QED
  BY <1>2, <1>3 DEF Then, Transforms

\* into_orientation gives an orientation.
LEMMA IntoType ==
    ASSUME NEW t \in Transforms
    PROVE  IntoOrientation(t) \in Orientations
<1>1. t.by \in 0..3 /\ t.mirror \in BOOLEAN
  BY DEF Transforms
<1>2. (t.by + 2) % 4 \in 0..3 /\ (4 - t.by) % 4 \in 0..3
  BY <1>1
<1> QED
  BY <1>2 DEF IntoOrientation, Orientations

\* The transforms after each of an item's properties, the last one the result.
IsComposition(f, properties, indices) ==
    /\ f[0] = Rotation(0)
    /\ \A n \in 1..Len(indices) :
          f[n] = IF indices[n] \in DOMAIN properties
                 THEN Then(f[n - 1], properties[indices[n]]) ELSE f[n - 1]
    /\ Composed(properties, indices) = f[Len(indices)]

\* resolve_orientation's loop is well founded: it is the function its equations
\* say.
LEMMA ComposedDef ==
    ASSUME NEW properties, \A i \in DOMAIN properties : properties[i] \in Transforms,
           NEW T, NEW indices \in Seq(T)
    PROVE  \E f \in [0..Len(indices) -> Transforms] : IsComposition(f, properties, indices)
<1> DEFINE N == Len(indices)
           Step(t, n) == IF indices[n] \in DOMAIN properties
                         THEN Then(t, properties[indices[n]]) ELSE t
           Body(g, n) == IF n = 0 THEN Rotation(0)
                         ELSE IF indices[n] \in DOMAIN properties
                              THEN Then(g[n - 1], properties[indices[n]])
                              ELSE g[n - 1]
           Has(n) == n <= N => \E g : g = [i \in 0..n |-> Body(g, i)]
           S == {n \in Nat : Has(n)}
<1>n. N \in Nat
  OBVIOUS
<1> HIDE DEF N
<1>s. \A g : \A n : Body(g, n) = IF n = 0 THEN Rotation(0) ELSE Step(g[n - 1], n)
  OBVIOUS
<1> HIDE DEF Body
<1>1. Has(0)
  <2> DEFINE g == [i \in 0..0 |-> Rotation(0)]
  <2>1. \A i \in 0..0 : Body(g, i) = Rotation(0)
    BY <1>s
  <2>2. g = [i \in 0..0 |-> Body(g, i)]
    <3> HIDE DEF Rotation
    <3> QED
      BY <2>1
  <2> QED
    BY <2>2, Zenon
<1>2. ASSUME NEW n \in Nat, Has(n) PROVE Has(n + 1)
  <2>0. SUFFICES ASSUME n + 1 <= N PROVE \E g : g = [i \in 0..(n + 1) |-> Body(g, i)]
    BY Zenon
  <2>1. n <= N
    BY <2>0, <1>n
  <2>2. PICK g : g = [i \in 0..n |-> Body(g, i)]
    BY <1>2, <2>1, Zenon
  <2> DEFINE h == [i \in 0..(n + 1) |-> IF i = n + 1 THEN Step(g[n], i) ELSE g[i]]
  <2>3. ASSUME NEW i \in 0..(n + 1) PROVE h[i] = Body(h, i)
    <3> HIDE DEF Step
    <3>1. CASE i = n + 1
      <4>1. h[i] = Step(g[n], i) /\ h[i - 1] = g[n] /\ i # 0
        BY <3>1
      <4> QED
        BY <4>1, <1>s, Zenon
    <3>2. CASE i \in 0..n
      <4>1. h[i] = g[i] /\ (i # 0 => h[i - 1] = g[i - 1])
        BY <3>2
      <4>2. g[i] = Body(g, i)
        BY <3>2, <2>2, Zenon
      <4> HIDE DEF h
      <4> QED
        BY <4>1, <4>2, <1>s
    <3> QED
      BY <3>1, <3>2
  <2>4. h = [i \in 0..(n + 1) |-> Body(h, i)]
    <3>1. h = [i \in 0..(n + 1) |-> h[i]]
      <4> HIDE DEF Step
      <4> QED
        OBVIOUS
    <3> HIDE DEF h
    <3> QED
      BY <2>3, <3>1
  <2> QED
    BY <2>4, Zenon
<1>3. Has(N)
  <2> HIDE DEF Has
  <2>1. 0 \in S /\ \A n \in Nat : n \in S => n + 1 \in S
    BY <1>1, <1>2
  <2>2. Nat \subseteq S
    <3> HIDE DEF S
    <3> QED
      BY <2>1, SetInduction
  <2> QED
    BY <2>2, <1>n
<1>4. \E g : g = [i \in 0..N |-> Body(g, i)]
  <2>1. N <= N
    BY <1>n
  <2> QED
    BY <1>3, <2>1, Zenon
<1> DEFINE f[n \in 0..Len(indices)] ==
               IF n = 0 THEN Rotation(0)
               ELSE IF indices[n] \in DOMAIN properties
                    THEN Then(f[n - 1], properties[indices[n]])
                    ELSE f[n - 1]
<1>5. f = [i \in 0..N |-> Body(f, i)]
  BY <1>4, Zenon DEF N, Body
<1>6. Composed(properties, indices) = f[N]
  BY DEF Composed, N
<1> HIDE DEF f
<1>7. /\ f[0] = Rotation(0)
      /\ DOMAIN f = 0..N
      /\ \A n \in 1..N : f[n] = Step(f[n - 1], n)
  <2>1. 0 \in 0..N /\ 0 = 0 /\ \A i \in 1..N : i \in 0..N /\ i # 0
    BY <1>n
  <2>2. DOMAIN f = 0..N /\ \A i \in 0..N : f[i] = Body(f, i)
    BY <1>5, Zenon
  <2> HIDE DEF Step
  <2> QED
    BY <2>1, <2>2, <1>s, Zenon
<1>8. \A n \in 0..N : f[n] \in Transforms
  <2> DEFINE U == {n \in Nat : n \in 0..N => f[n] \in Transforms}
  <2>1. 0 \in U
    <3>1. Rotation(0) \in Transforms
      BY DEF Rotation, Transforms
    <3> QED
      BY <1>7, <3>1
  <2>2. ASSUME NEW n \in Nat, n \in U PROVE n + 1 \in U
    <3>1. SUFFICES ASSUME n + 1 \in 0..N PROVE f[n + 1] \in Transforms
      OBVIOUS
    <3>2. n \in 0..N /\ n + 1 \in 1..N /\ (n + 1) - 1 = n
      BY <3>1, <1>n
    <3>3. f[n] \in Transforms
      BY <2>2, <3>2
    <3>4. f[n + 1] = Step(f[n], n + 1)
      BY <1>7, <3>2
    <3>5. Step(f[n], n + 1) \in Transforms
      BY <3>3, ThenType
    <3> QED
      BY <3>4, <3>5
  <2>3. Nat \subseteq U
    <3> HIDE DEF U
    <3> QED
      BY <2>1, <2>2, SetInduction
  <2> QED
    BY <2>3
<1>9. f \in [0..N -> Transforms]
  BY <1>5, <1>7, <1>8
<1> QED
  BY <1>6, <1>7, <1>9 DEF N, IsComposition

\* collect_properties gives transforms.
LEMMA CollectedType ==
    ASSUME NEW S, \A b \in S : IsBox(b), NEW visited \in Seq(S)
    PROVE  \A i \in DOMAIN collect_properties(visited) :
              collect_properties(visited)[i] \in Transforms
<1> DEFINE I == {i \in DOMAIN visited : visited[i].type \in {"irot", "imir"}}
           Of(i) == CASE visited[i].type = "irot" -> Rotation(visited[i].value % 4)
                      [] visited[i].type = "imir" ->
                            Reflection(IF visited[i].value % 2 = 0 THEN 2 ELSE 0)
<1>1. collect_properties(visited) = [i \in I |-> Of(i)]
  BY DEF collect_properties
<1>2. ASSUME NEW i \in I PROVE Of(i) \in Transforms
  <2>1. visited[i].type \in {"irot", "imir"} /\ visited[i] \in S
    OBVIOUS
  <2>2. visited[i].value \in Nat
    BY <2>1 DEF IsBox
  <2>3. visited[i].value % 4 \in 0..3
    BY <2>2
  <2>4. Rotation(visited[i].value % 4) \in Transforms
    BY <2>3 DEF Rotation, Transforms
  <2>5. Reflection(2) \in Transforms /\ Reflection(0) \in Transforms
    BY DEF Reflection, Transforms
  <2> QED
    BY <2>1, <2>4, <2>5
<1> HIDE DEF Of
<1> QED
  BY <1>1, <1>2

-----------------------------------------------------------------------------
(* The types of what is read from a container. *)

\* The boxes at the three depths the orientation is read from.
LEMMA ContainerDepths ==
    ASSUME NEW c, IsContainer(c)
    PROVE  LET first == Range(c)
               second == Inside(first)
               third == Inside(second)
           IN  /\ c \in Seq(first)
               /\ \A b \in first \cup second \cup third \cup Inside(third) : IsBox(b)
  BY DEF IsContainer, IsSequence

\* The boxes in a box are one depth further down.
LEMMA InsideIs ==
    ASSUME NEW S, NEW b \in S, IsBox(b), b.type \in Parents
    PROVE  b.boxes \in Seq(Inside(S))
<1>1. IsSequence(b.boxes)
  BY DEF IsBox
<1>2. Range(b.boxes) \subseteq Inside(S)
  BY DEF Inside
<1> QED
  BY <1>1, <1>2, SequenceIn

\* The properties associated with an item are a sequence.
LEMMA AssociationsType ==
    ASSUME NEW b, IsBox(b), b.type = "ipma", NEW item,
           NEW is \in parse_primary_item_associations(b, item)
    PROVE  IsSequence(is)
<1>1. b.entries \in Seq(Range(b.entries))
  BY DEF IsBox, IsSequence
<1>2. PICK e \in EntryOf(b.entries, item) : is = e.indices
  BY DEF parse_primary_item_associations
<1>3. e \in Range(b.entries)
  BY <1>1, <1>2, EntryOfIs
<1> QED
  BY <1>2, <1>3 DEF IsBox

\* resolve_orientation gives an orientation or none, and no more budget than it
\* was given.
LEMMA ResolvedType ==
    ASSUME NEW S, \A b \in S \cup Inside(S) \cup Inside(Inside(S)) : IsBox(b),
           NEW pitm, NEW iprp, \A b \in iprp : b \in S /\ b.type = "iprp",
           NEW budget \in Nat
    PROVE  LET resolved == resolve_orientation(pitm, iprp, budget)
           IN  resolved.orientation \subseteq Orientations /\ resolved.left \in Nat
<1>1. CASE iprp = {} \/ parse_primary_item_id(pitm) = {}
  BY <1>1 DEF resolve_orientation
<1>2. CASE ~(iprp = {} \/ parse_primary_item_id(pitm) = {})
  <2> DEFINE children == walk_boxes(The(iprp).boxes, budget)
             ipco == FirstBox(children, "ipco")
             visited == IF ipco = {} THEN <<>>
                        ELSE walk_boxes(The(ipco).boxes, budget - Len(children))
             item == The(parse_primary_item_id(pitm))
             indices == UNION {parse_primary_item_associations(b, item) :
                                  b \in FirstBox(children, "ipma")}
             oriented == IF ipco = {} THEN {}
                         ELSE {IntoOrientation(Composed(collect_properties(visited), is)) :
                                  is \in indices}
  <2>0. resolve_orientation(pitm, iprp, budget) =
            [orientation |-> oriented, left |-> budget - Len(children) - Len(visited)]
    BY <1>2 DEF resolve_orientation
  <2>1. The(iprp) \in S /\ The(iprp).type = "iprp"
    BY <1>2, TheIs
  <2>2. The(iprp).boxes \in Seq(Inside(S))
    BY <2>1, InsideIs DEF Parents
  <2>3. children \in Seq(Inside(S)) /\ Len(children) <= budget /\ Len(children) \in Nat
    BY <2>2, WalkIs
  <2> HIDE DEF children
  <2>4. /\ \A b \in ipco : b \in Inside(S) /\ b.type = "ipco"
        /\ \A b \in FirstBox(children, "ipma") : b \in Inside(S) /\ b.type = "ipma"
    BY <2>3, FirstBoxIs
  <2> HIDE DEF ipco
  <2>5. /\ visited \in Seq(Inside(Inside(S))) /\ Len(visited) \in Nat
        /\ budget - Len(children) - Len(visited) \in Nat
    <3>1. CASE ipco = {}
      <4>1. visited = <<>>
        BY <3>1
      <4> HIDE DEF visited
      <4>2. visited \in Seq(Inside(Inside(S))) /\ Len(visited) = 0
        BY <4>1
      <4> QED
        BY <2>3, <4>2
    <3>2. CASE ipco # {}
      <4>1. The(ipco) \in Inside(S) /\ The(ipco).type = "ipco"
        BY <2>4, <3>2, TheIs
      <4>2. The(ipco).boxes \in Seq(Inside(Inside(S)))
        BY <4>1, InsideIs DEF Parents
      <4>3. budget - Len(children) \in Nat
        BY <2>3
      <4>4. visited = walk_boxes(The(ipco).boxes, budget - Len(children))
        BY <3>2
      <4>5. visited \in Seq(Inside(Inside(S))) /\ Len(visited) <= budget - Len(children)
        BY <4>2, <4>3, <4>4, WalkIs
      <4> HIDE DEF visited
      <4>6. Len(visited) \in Nat
        BY <4>5
      <4> QED
        BY <2>3, <4>5, <4>6
    <3> QED
      BY <3>1, <3>2
  <2> HIDE DEF visited
  <2>6. \A i \in DOMAIN collect_properties(visited) : collect_properties(visited)[i] \in Transforms
    BY <2>5, CollectedType
  <2>7. ASSUME NEW is \in indices
        PROVE  IntoOrientation(Composed(collect_properties(visited), is)) \in Orientations
    <3>1. PICK b \in FirstBox(children, "ipma") : is \in parse_primary_item_associations(b, item)
      BY <2>7
    <3>2. IsSequence(is)
      BY <2>4, <3>1, AssociationsType
    <3>3. is \in Seq(Range(is))
      BY <3>2 DEF IsSequence
    <3>4. Len(is) \in 0..Len(is)
      BY <3>3
    <3>5. Composed(collect_properties(visited), is) \in Transforms
      BY <2>6, <3>3, <3>4, ComposedDef DEF IsComposition
    <3> QED
      BY <3>5, IntoType
  <2> HIDE DEF indices
  <2>8. oriented \subseteq Orientations
    BY <2>7
  <2> HIDE DEF oriented
  <2> QED
    BY <2>0, <2>5, <2>8
<1> QED
  BY <1>1, <1>2

\* parse gives an orientation and EXIF.
LEMMA ParseType ==
    ASSUME NEW c, IsContainer(c)
    PROVE  Parse(c).orientation \in Orientations /\ Parse(c).exif \subseteq Exifs
<1> DEFINE first == Range(c)
           second == Inside(first)
           top == walk_boxes(c, MaxBoxesVisited)
           meta == FirstBox(top, "meta")
           children == IF meta = {} THEN <<>>
                       ELSE walk_boxes(The(meta).boxes, MaxBoxesVisited - Len(top))
           turned == resolve_orientation(FirstBox(children, "pitm"), FirstBox(children, "iprp"),
                                         MaxBoxesVisited - Len(top) - Len(children))
           payload == extract_exif_payload(FirstBox(children, "iinf"), FirstBox(children, "iloc"),
                                           turned.left)
<1>0. /\ Parse(c).orientation = IF turned.orientation = {} THEN NoTransforms
                                ELSE The(turned.orientation)
      /\ Parse(c).exif = payload
  BY DEF Parse
<1>1. /\ c \in Seq(first)
      /\ \A b \in first \cup second \cup Inside(second) \cup Inside(Inside(second)) : IsBox(b)
  BY ContainerDepths
<1> HIDE DEF first, second
<1>2. top \in Seq(first) /\ Len(top) <= MaxBoxesVisited /\ Len(top) \in Nat
  BY <1>1, AvifMetaAssumption, WalkIs
<1> HIDE DEF top
<1>3. \A b \in meta : b \in first /\ b.type = "meta"
  BY <1>2, FirstBoxIs
<1> HIDE DEF meta
<1>4. children \in Seq(second) /\ MaxBoxesVisited - Len(top) - Len(children) \in Nat
  <2>1. CASE meta = {}
    <3>1. children = <<>>
      BY <2>1
    <3> HIDE DEF children
    <3>2. children \in Seq(second) /\ Len(children) = 0
      BY <3>1
    <3> QED
      BY <1>2, <3>2, AvifMetaAssumption
  <2>2. CASE meta # {}
    <3>1. The(meta) \in first /\ The(meta).type = "meta"
      BY <1>3, <2>2, TheIs
    <3>2. The(meta).boxes \in Seq(second)
      BY <1>1, <3>1, InsideIs DEF Parents, second
    <3>3. MaxBoxesVisited - Len(top) \in Nat
      BY <1>2, AvifMetaAssumption
    <3>4. children = walk_boxes(The(meta).boxes, MaxBoxesVisited - Len(top))
      BY <2>2
    <3>5. children \in Seq(second) /\ Len(children) <= MaxBoxesVisited - Len(top)
      BY <3>2, <3>3, <3>4, WalkIs
    <3> HIDE DEF children
    <3>6. Len(children) \in Nat
      BY <3>5
    <3> QED
      BY <1>2, <3>3, <3>5, <3>6, AvifMetaAssumption
  <2> QED
    BY <2>1, <2>2
<1> HIDE DEF children
<1>5. /\ \A b \in FirstBox(children, "iprp") : b \in second /\ b.type = "iprp"
      /\ \A b \in FirstBox(children, "iloc") : b \in second /\ b.type = "iloc"
  BY <1>4, FirstBoxIs
<1>6. turned.orientation \subseteq Orientations
  BY <1>1, <1>4, <1>5, ResolvedType
<1>7. NoTransforms \in Orientations
  BY DEF NoTransforms, Orientations
<1> HIDE DEF turned
<1>8. ASSUME NEW l \in FirstBox(children, "iloc"), NEW item, NEW e \in find_iloc_entry(l, item)
      PROVE  extract_exif_tiff(e) \subseteq Exifs
  <2>1. IsBox(l) /\ l.type = "iloc"
    BY <1>1, <1>5
  <2>2. l.entries \in Seq(Range(l.entries)) /\ \A x \in Range(l.entries) : x.tiff \subseteq Exifs
    BY <2>1 DEF IsBox, IsSequence
  <2>3. e \in Range(l.entries)
    BY <2>2, EntryOfIs DEF find_iloc_entry
  <2> QED
    BY <2>2, <2>3 DEF extract_exif_tiff
<1>9. payload \subseteq Exifs
  BY <1>8 DEF extract_exif_payload
<1>10. (IF turned.orientation = {} THEN NoTransforms ELSE The(turned.orientation)) \in Orientations
  BY <1>6, <1>7, TheIs
<1> QED
  BY <1>0, <1>9, <1>10

\* The tag of a still image that is not an AVIF.
LEMMA TagType ==
    ASSUME NEW s, IsSource(s)
    PROVE  TagOrientation(s) \in Orientations
<1> DEFINE tags == UNION {e.tag : e \in s.exif}
<1>1. tags \subseteq Orientations
  BY DEF IsSource, Exifs
<1>2. NoTransforms \in Orientations
  BY DEF NoTransforms, Orientations
<1>3. TagOrientation(s) = IF tags = {} THEN NoTransforms ELSE The(tags)
  BY DEF TagOrientation
<1> HIDE DEF tags
<1> QED
  BY <1>1, <1>2, <1>3, TheIs

\* Whatever decodes it, an image comes with an orientation, EXIF or none, and a
\* profile or none.
LEMMA DecodedType ==
    ASSUME NEW r, NEW s, IsSource(s)
    PROVE  /\ Decoded(r, s).orientation \in Orientations
           /\ Decoded(r, s).exif \subseteq Exifs
           /\ Decoded(r, s).icc \in BOOLEAN
<1>1. TagOrientation(s) \in Orientations
  BY TagType
<1>2. s.exif \subseteq Exifs /\ s.icc \in BOOLEAN /\ s.kind \in Kinds
  BY DEF IsSource
<1>3. CASE s.kind = "jpeg"
  <2>1. Decoded(r, s) = decode_jpeg_scaled(r, s)
    BY <1>3 DEF Decoded
  <2> QED
    BY <1>1, <1>2, <2>1 DEF decode_jpeg_scaled
<1>4. CASE s.kind \in {"webp", "animated_webp"}
  <2>1. Decoded(r, s) = decode_webp(s)
    BY <1>4 DEF Decoded
  <2> QED
    BY <1>1, <1>2, <2>1 DEF decode_webp
<1>5. CASE s.kind = "avif"
  <2>1. Decoded(r, s) = avif_decode(s)
    BY <1>5 DEF Decoded
  <2>2. Parse(s.container).orientation \in Orientations /\ Parse(s.container).exif \subseteq Exifs
    BY ParseType DEF IsSource
  <2> QED
    BY <2>1, <2>2 DEF avif_decode
<1>6. CASE s.kind \in {"gif", "other"}
  <2>1. Decoded(r, s) = decode_with_image_crate(r, s)
    BY <1>6 DEF Decoded
  <2> QED
    BY <1>1, <1>2, <2>1 DEF decode_with_image_crate
<1> QED
  BY <1>2, <1>3, <1>4, <1>5, <1>6 DEF Kinds

-----------------------------------------------------------------------------
(* Views. *)

\* A quarter turn and the flips of a view are views.
LEMMA ViewType ==
    ASSUME NEW v \in Views
    PROVE  TurnRight(v) \in Views /\ FlipH(v) \in Views /\ FlipV(v) \in Views
<1>1. \A c \in Corners : v[c][1] \in 0..1 /\ v[c][2] \in 0..1
  BY DEF Views, Corners
<1>2. \A c \in Corners : <<1 - v[c][2], v[c][1]>> \in Corners
  BY <1>1 DEF Corners
<1>3. \A c \in Corners : <<1 - v[c][1], v[c][2]>> \in Corners
  BY <1>1 DEF Corners
<1>4. \A c \in Corners : <<v[c][1], 1 - v[c][2]>> \in Corners
  BY <1>1 DEF Corners
<1> QED
  BY <1>2, <1>3, <1>4 DEF Views, TurnRight, FlipH, FlipV

\* rotate90, rotate180 and rotate270 give a view.
LEMMA TurnedType ==
    ASSUME NEW v \in Views, NEW n \in 0..3
    PROVE  Turned(v, n) \in Views
<1>1. /\ TurnRight(v) \in Views
      /\ TurnRight(TurnRight(v)) \in Views
      /\ TurnRight(TurnRight(TurnRight(v))) \in Views
  BY ViewType
<1> HIDE DEF Views
<1> QED
  BY <1>1 DEF Turned

\* apply_orientation gives a view.
LEMMA OrientedType ==
    ASSUME NEW v \in Views, NEW o \in Orientations
    PROVE  ApplyOrientation(v, o) \in Views
<1>1. o.turns \in 0..3
  BY DEF Orientations
<1>2. Turned(v, o.turns) \in Views
  BY <1>1, TurnedType
<1> QED
  BY <1>2, ViewType DEF ApplyOrientation

\* apply_rotate and apply_flip give a view.
LEMMA FilteredView ==
    ASSUME NEW r \in RequestType, NEW v \in Views
    PROVE  Flipped(r, Rotated(r, v)) \in Views
<1>1. r.rotate \in {0, 90, 180, 270}
  BY DEF RequestType
<1>2. r.rotate \div 90 \in 0..3
  BY <1>1
<1>3. Rotated(r, v) \in Views
  BY <1>2, TurnedType DEF Rotated
<1> QED
  BY <1>3, ViewType DEF Flipped

\* The pixels as stored are a view.
LEMMA AsStoredType == AsStored \in Views
  BY DEF AsStored, Views

-----------------------------------------------------------------------------
(* The watermark. *)

\* A watermark has a size, whichever way it was given, and a place.
LEMMA WatermarkPlaced ==
    ASSUME NEW wm \in WatermarkType, NEW overlay \in Size, NEW size \in Size
    PROVE  LET asked == WatermarkSize(wm, overlay, size)
           IN  asked \in Size /\ WatermarkPosition(wm, size, asked) \in [Axes -> Int]
<1> DEFINE scaled == [i \in Axes |-> RoundedPixels(size[i] * wm.scale, 10)]
           box == IF wm.size # <<Unset, Unset>> THEN wm.size ELSE scaled
           sized == IF wm.size = <<Unset, Unset>> /\ wm.scale = 0 THEN overlay
                    ELSE ResizeDimensions(overlay, box, FALSE)
           asked == RotatedMark(sized, wm.rotate)
<1>0. WatermarkSize(wm, overlay, size) = asked
  BY DEF WatermarkSize
<1>1. /\ wm.size \in Box /\ wm.scale \in Nat /\ wm.offset \in [Axes -> Int]
      /\ wm.position \in [Axes -> {"start", "middle", "end"}]
  BY DEF WatermarkType
<1>2. scaled \in Box /\ Bounded(scaled)
  <2>1. ASSUME NEW i \in Axes PROVE RoundedPixels(size[i] * wm.scale, 10) \in Nat \ {0}
    <3>1. size[i] * wm.scale \in Nat
      BY <1>1 DEF Size
    <3> QED
      BY <3>1, RoundedType
  <2> QED
    BY <2>1 DEF Box, Bounded, Unset, Axes
<1>3. wm.size # <<Unset, Unset>> => Bounded(wm.size)
  <2>1. wm.size = <<wm.size[1], wm.size[2]>>
    BY <1>1, SidesOf DEF Box
  <2> QED
    BY <2>1 DEF Bounded
<1> HIDE DEF scaled
<1>4. box \in Box /\ Bounded(box)
  BY <1>1, <1>2, <1>3
<1> HIDE DEF box
<1>5. ResizeDimensions(overlay, box, FALSE) \in Size
  BY <1>4, ResizedIs
<1>6. sized \in Size
  BY <1>5
<1> HIDE DEF sized
<1>7. asked \in Size
  BY <1>6, SwapOf DEF RotatedMark, Size
<1> HIDE DEF asked
<1> DEFINE At(i) == wm.offset[i] +
               (CASE wm.position[i] = "start" -> 0
                  [] wm.position[i] = "middle" -> Half(size[i] - asked[i])
                  [] wm.position[i] = "end" -> size[i] - asked[i])
<1>8. ASSUME NEW i \in Axes PROVE At(i) \in Int
  <2>1. /\ size[i] \in Nat /\ asked[i] \in Nat /\ wm.offset[i] \in Int
        /\ wm.position[i] \in {"start", "middle", "end"}
    BY <1>1, <1>7 DEF Size
  <2>2. Half(size[i] - asked[i]) \in Int
    BY <2>1 DEF Half
  <2> QED
    BY <2>1, <2>2
<1>9. WatermarkPosition(wm, size, asked) = [i \in Axes |-> At(i)]
  BY DEF WatermarkPosition
<1> HIDE DEF At
<1>10. WatermarkPosition(wm, size, asked) \in [Axes -> Int]
  BY <1>8, <1>9
<1> QED
  BY <1>0, <1>7, <1>10

\* What is drawn is as large as it is, or less.
LEMMA DrawnType ==
    ASSUME NEW size \in Size, NEW at \in [Axes -> Int], NEW asked \in Size
    PROVE  Drawn(size, at, asked) \in Box
  BY DEF Drawn, Larger, Smaller, Box, Size

\* One that fits and is not moved lies inside, so composite_over skips nothing.
LEMMA DrawnWhole ==
    ASSUME NEW wm \in WatermarkType, NEW overlay \in Size, NEW size \in Size,
           wm.offset = <<0, 0>>, Within(WatermarkSize(wm, overlay, size), size)
    PROVE  LET asked == WatermarkSize(wm, overlay, size)
           IN  Drawn(size, WatermarkPosition(wm, size, asked), asked) = asked
<1> DEFINE asked == WatermarkSize(wm, overlay, size)
           at == WatermarkPosition(wm, size, asked)
<1>1. asked \in Size /\ at \in [Axes -> Int]
  BY WatermarkPlaced
<1>2. Within(asked, size)
  OBVIOUS
<1> HIDE DEF asked
<1>3. ASSUME NEW i \in Axes
      PROVE  Larger(0, Smaller(size[i], at[i] + asked[i]) - Larger(0, at[i])) = asked[i]
  <2>1. size[i] \in Nat /\ asked[i] \in Nat /\ asked[i] <= size[i]
    BY <1>1, <1>2 DEF Size, Within
  <2>2. wm.position[i] \in {"start", "middle", "end"} /\ wm.offset[i] = 0
    BY DEF WatermarkType, Axes
  <2>3. at[i] \in 0..(size[i] - asked[i])
    BY <2>1, <2>2 DEF WatermarkPosition, Half
  <2> HIDE DEF at
  <2> QED
    BY <2>1, <2>3 DEF Larger, Smaller
<1>4. Drawn(size, at, asked) = [i \in Axes |-> asked[i]]
  BY <1>3 DEF Drawn
<1>5. asked = [i \in Axes |-> asked[i]]
  BY <1>1 DEF Size
<1> QED
  BY <1>4, <1>5 DEF asked, at

-----------------------------------------------------------------------------
(* Types. *)

\* The EXIF that encode_single_image forwards is EXIF.
LEMMA ForwardedType ==
    ASSUME NEW r, r.strip \in BOOLEAN, NEW kept, kept \subseteq Exifs, NEW turned \in BOOLEAN
    PROVE  ForwardedExif(r, kept, turned) \subseteq Exifs
<1>1. ASSUME NEW e \in kept PROVE neutralize_exif_orientation(e) \subseteq Exifs
  <2>1. e \in Exifs
    OBVIOUS
  <2>2. NoTransforms \in Orientations
    BY DEF NoTransforms, Orientations
  <2>3. [e EXCEPT !.tag = {NoTransforms}] \in Exifs
    BY <2>1, <2>2 DEF Exifs
  <2> QED
    BY <2>3 DEF neutralize_exif_orientation
<1> QED
  BY <1>1 DEF ForwardedExif

\* The encoders write the metadata they are given or none.
LEMMA Written ==
    ASSUME REncode, stage' # "failed"
    PROVE  /\ request.format \in {"webp", "png", "jpeg", "avif"} => exif' = exif
           /\ request.format \notin {"webp", "png", "jpeg", "avif"} => exif' = {}
           /\ request.format \in {"webp", "png", "jpeg"} => icc' = icc
           /\ request.format \notin {"webp", "png", "jpeg"} => icc' = FALSE
           /\ hidden' = (hidden /\ ~Cleans(request))
           /\ alpha' = IF request.format = "jpeg" THEN "none" ELSE alpha
           /\ UNCHANGED <<view, applied, mark>>
<1> DEFINE written == Encoded(request.format, exif, icc)
<1>0. /\ exif' = written.exif /\ icc' = written.icc
      /\ hidden' = (hidden /\ ~Cleans(request))
      /\ alpha' = IF request.format = "jpeg" THEN "none" ELSE alpha
      /\ UNCHANGED <<view, applied, mark>>
  BY DEF REncode
<1>1. CASE request.format \in {"webp", "png", "jpeg"}
  <2>1. written = [exif |-> exif, icc |-> icc]
    BY <1>1 DEF Encoded, encode_webp, encode_png, encode_jpeg
  <2> HIDE DEF written
  <2>2. exif' = exif /\ icc' = icc
    BY <1>0, <2>1
  <2> QED
    BY <1>0, <1>1, <2>2
<1>2. CASE request.format = "avif"
  <2>1. written = [exif |-> exif, icc |-> FALSE]
    BY <1>2 DEF Encoded, avif_encode
  <2> HIDE DEF written
  <2>2. exif' = exif /\ icc' = FALSE
    BY <1>0, <2>1
  <2> QED
    BY <1>0, <1>2, <2>2
<1>3. CASE request.format \notin {"webp", "png", "jpeg", "avif"}
  <2>1. written = [exif |-> {}, icc |-> FALSE]
    BY <1>3 DEF Encoded
  <2> HIDE DEF written
  <2>2. exif' = {} /\ icc' = FALSE
    BY <1>0, <2>1
  <2> QED
    BY <1>0, <1>3, <2>2
<1> QED
  BY <1>1, <1>2, <1>3

\* What is shown has its type: orientation, metadata, transparency, watermark.
ShownOK ==
    /\ view \in Views
    /\ exif \subseteq Exifs
    /\ icc \in BOOLEAN
    /\ applied \in BOOLEAN
    /\ alpha \in {"none", "opaque", "clear"}
    /\ hidden \in BOOLEAN
    /\ mark \subseteq Box

\* Sizes have their types in TypeOK, the rest in ShownOK.
LEMMA RTypeIs == RTypeOK <=> TypeOK /\ ShownOK
  BY DEF RTypeOK, ShownOK

\* A job starts with nothing to show.
LEMMA RTypeInit == RInit => RTypeOK
<1> SUFFICES ASSUME RInit PROVE RTypeOK
  OBVIOUS
<1>1. TypeOK
  BY GeometryInit DEF RInit
<1>2. ShownOK
  BY AsStoredType DEF RInit, ShownOK
<1> QED
  BY <1>1, <1>2, RTypeIs

\* Every step shows an orientation, metadata, transparency and watermark of their
\* types: decoders, resize_and_filter, apply_watermark and the encoders.
LEMMA RTypeStep ==
    ASSUME RTypeOK, [RNext]_rvars
    PROVE  RTypeOK'
<1>0. TypeOK /\ ShownOK
  BY RTypeIs
<1>1. TypeOK'
  BY <1>0, RenderStep, GeometryStep
<1>2. /\ request \in RequestType /\ IsRequest(request) /\ IsSource(source)
      /\ img \in Size /\ img' \in Size
  BY <1>0, <1>1 DEF TypeOK, IsRequest
<1> SUFFICES ShownOK'
  BY <1>1 DEF RTypeOK, ShownOK
<1>3. CASE UNCHANGED shown
  BY <1>0, <1>3 DEF shown, ShownOK
<1>4. CASE ROpenAnimation
  <2>1. source.alpha \in {"none", "clear"}
    BY <1>2 DEF IsSource
  <2> QED
    BY <1>0, <1>4, <2>1 DEF ROpenAnimation, ShownOK
<1>5. CASE RDecode
  <2>1. source.alpha \in {"none", "clear"}
    BY <1>2 DEF IsSource
  <2>2. Decoded(request, source).exif \subseteq Exifs /\ Decoded(request, source).icc \in BOOLEAN
    BY <1>2, DecodedType
  <2> QED
    BY <1>0, <1>5, <2>1, <2>2 DEF RDecode, ShownOK
<1>6. CASE ROrient
  <2>1. Decoded(request, source).orientation \in Orientations
    BY <1>2, DecodedType
  <2>2. ApplyOrientation(view, Decoded(request, source).orientation) \in Views
    BY <1>0, <2>1, OrientedType DEF ShownOK
  <2>3. request.autorotate \in BOOLEAN
    BY <1>2 DEF RequestType
  <2> QED
    BY <1>0, <1>6, <2>2, <2>3 DEF ROrient, ShownOK
<1>7. CASE RResizeAndFilter
  <2>1. request.strip \in BOOLEAN
    BY <1>2 DEF RequestType
  <2>2. ForwardedExif(request, exif, applied) \subseteq Exifs
    BY <1>0, <2>1, ForwardedType DEF ShownOK
  <2>3. Flipped(request, Rotated(request, view)) \in Views
    BY <1>0, <1>2, FilteredView DEF ShownOK
  <2> QED
    BY <1>0, <1>7, <2>2, <2>3 DEF RResizeAndFilter, ShownOK
<1>8. CASE RGrowCanvas
  BY <1>0, <1>8 DEF RGrowCanvas, ShownOK
<1>9. CASE RWatermark
  <2>1. ASSUME NEW wm \in request.watermark, NEW o \in request.overlay
        PROVE  Drawn(img, WatermarkPosition(wm, img, WatermarkSize(wm, o, img)),
                     WatermarkSize(wm, o, img)) \in Box
    <3>1. wm \in WatermarkType /\ o \in Size
      BY <1>2 DEF RequestType
    <3>2. /\ WatermarkSize(wm, o, img) \in Size
          /\ WatermarkPosition(wm, img, WatermarkSize(wm, o, img)) \in [Axes -> Int]
      BY <1>2, <3>1, WatermarkPlaced
    <3> QED
      BY <1>2, <3>2, DrawnType
  <2>2. mark' \subseteq Box
    BY <1>9, <2>1 DEF RWatermark
  <2> QED
    BY <1>0, <1>9, <2>2 DEF RWatermark, ShownOK
<1>10. CASE REncode
  <2>1. CASE stage' = "failed"
    BY <1>3, <1>10, <2>1 DEF REncode
  <2>2. CASE stage' # "failed"
    <3>1. icc \in BOOLEAN /\ exif \subseteq Exifs
      BY <1>0 DEF ShownOK
    <3>2. icc' \in BOOLEAN
      BY <1>10, <2>2, <3>1, Written
    <3>3. exif' \subseteq Exifs
      BY <1>10, <2>2, <3>1, Written
    <3>4. hidden' \in BOOLEAN
      BY <1>10, <2>2, Written
    <3>5. /\ alpha' = IF request.format = "jpeg" THEN "none" ELSE alpha
          /\ UNCHANGED <<view, applied, mark>>
      BY <1>10, <2>2, Written
    <3> QED
      BY <1>0, <3>2, <3>3, <3>4, <3>5 DEF ShownOK
  <2> QED
    BY <2>1, <2>2
<1>11. CASE REncodeAnimation
  <2>1. Flipped(request, Rotated(request, view)) \in Views
    BY <1>0, <1>2, FilteredView DEF ShownOK
  <2> QED
    BY <1>0, <1>11, <2>1 DEF REncodeAnimation, ShownOK
<1> QED
  BY <1>3, <1>4, <1>5, <1>6, <1>7, <1>8, <1>9, <1>10, <1>11 DEF RNext, Unseen, rvars

-----------------------------------------------------------------------------
(* Nothing is clipped. *)

\* apply_crop and apply_watermark lose no pixel they should keep.
LEMMA ClippedStep ==
    ASSUME RTypeOK, RNext
    PROVE  /\ stage = "crop" /\ request.crops =>
                 \A i \in Axes : img'[i] = CropLength(request.crop[i], img[i])
           /\ stage = "watermark" /\ stage' = "encode" =>
                 \A wm \in request.watermark, overlay \in request.overlay :
                    LET asked == WatermarkSize(wm, overlay, img)
                    IN  wm.offset = <<0, 0>> /\ Within(asked, img) => mark' = {asked}
<1>1. /\ request \in RequestType /\ IsOption(request.watermark) /\ IsOption(request.overlay)
      /\ img \in Size
  BY DEF RTypeOK, TypeOK, IsRequest
<1>2. ASSUME stage = "crop", request.crops
      PROVE  \A i \in Axes : img'[i] = CropLength(request.crop[i], img[i])
  <2>1. CropSource
    BY <1>2 DEF RNext, Unseen, ROpenAnimation, RDecode, ROrient, RResizeAndFilter, RGrowCanvas,
       RWatermark, REncode, REncodeAnimation, Goto, CheckRequest, Peek, OpenAnimation,
       DecodeScaled, DecodeFull, CodecFails, Orient, Trim, ResizeAndFilter, GrowCanvas, Verify,
       Watermark, Encode, EncodeAnimation
  <2>2. img' = Crop(request, img)
    BY <2>1 DEF CropSource
  <2> QED
    BY <1>1, <1>2, <2>2, CropIs
<1>3. ASSUME stage = "watermark", stage' = "encode",
             NEW wm \in request.watermark, NEW overlay \in request.overlay,
             wm.offset = <<0, 0>>, Within(WatermarkSize(wm, overlay, img), img)
      PROVE  mark' = {WatermarkSize(wm, overlay, img)}
  <2> DEFINE D(m, o) == Drawn(img, WatermarkPosition(m, img, WatermarkSize(m, o, img)),
                              WatermarkSize(m, o, img))
  <2>1. RWatermark
    BY <1>3 DEF RNext, Unseen, ROpenAnimation, RDecode, ROrient, RResizeAndFilter, RGrowCanvas,
       REncode, REncodeAnimation, Goto, CheckRequest, Peek, OpenAnimation,
       DecodeScaled, DecodeFull, CodecFails, Orient, Trim, CropSource, ResizeAndFilter, GrowCanvas,
       Verify, Watermark, Encode, EncodeAnimation
  <2>2. mark' = {D(m, o) : m \in request.watermark, o \in request.overlay}
    BY <2>1 DEF RWatermark
  <2>3. \A m \in request.watermark, o \in request.overlay : m = wm /\ o = overlay
    BY <1>1 DEF IsOption
  <2>4. wm \in WatermarkType /\ overlay \in Size
    BY <1>1 DEF RequestType
  <2>5. D(wm, overlay) = WatermarkSize(wm, overlay, img)
    BY <1>1, <1>3, <2>4, DrawnWhole
  <2> HIDE DEF D
  <2>6. mark' = {D(wm, overlay)}
    BY <2>2, <2>3
  <2> QED
    BY <2>5, <2>6
<1> QED
  BY <1>2, <1>3

-----------------------------------------------------------------------------
(* Metadata and transparency. *)

\* What the decoder read, and what encode_single_image forwards of it.
Read == Decoded(request, source)
Kept == ForwardedExif(request, Read.exif, applied)

\* A colour is only hidden under transparency.  An animation goes its own way
\* and has no EXIF.  A still image has the metadata its decoder read until
\* resize_and_filter, then what is forwarded of it, and at last what its encoder
\* writes.
Covered == hidden => alpha = "clear"
OwnWay ==
    /\ Animation => exif = {} /\ stage \notin {"decode", "orient", "trim", "crop"}
    /\ ~Animation => stage # "frames"
Carried ==
    ~Animation =>
        /\ stage \in {"orient", "trim", "crop", "resize"} => exif = Read.exif /\ icc = Read.icc
        /\ stage \in {"canvas", "verify", "watermark", "encode"} => exif = Kept /\ icc = Read.icc
WrittenOut ==
    stage = "done" =>
        /\ ~hidden
        /\ ~Animation =>
              /\ request.format # "auto"
              /\ request.format \in {"jpeg", "png", "webp", "avif"} => exif = Kept
              /\ request.format \notin {"jpeg", "png", "webp", "avif"} => exif = {}
              /\ request.format \in {"jpeg", "png", "webp"} => icc = Read.icc
Unread == stage \in {"check", "open", "decode"} => exif = {}
MetaInv == Covered /\ OwnWay /\ Carried /\ WrittenOut /\ Unread

\* Nothing is read, forwarded or written at first.
LEMMA MetaInit == RInit => MetaInv
  BY DEF RInit, Init, MetaInv, Covered, OwnWay, Carried, WrittenOut, Unread

\* Nothing changes what the job is about.
LEMMA JobKept ==
    ASSUME [RNext]_rvars
    PROVE  /\ request' = request /\ source' = source
           /\ Animation' = Animation /\ Read' = Read
<1>1. request' = request /\ source' = source
  BY RenderStep DEF vars, Next, Goto, CheckRequest, Peek, OpenAnimation, DecodeScaled, DecodeFull,
     CodecFails, Orient, Trim, CropSource, ResizeAndFilter, GrowCanvas, Verify, Watermark,
     Encode, EncodeAnimation
<1> QED
  BY <1>1 DEF Animation, Read

\* No EXIF is forwarded of none.
LEMMA NoneForwarded ==
    ASSUME NEW r, NEW turned
    PROVE  ForwardedExif(r, {}, turned) = {}
  BY DEF ForwardedExif

\* Decoding, encode_single_image's first step and the encoders pass the metadata
\* on as MetaInv says; every other step leaves it alone.
LEMMA MetaStep ==
    ASSUME RTypeOK, MetaInv, [RNext]_rvars
    PROVE  MetaInv'
<1>1. /\ request' = request /\ source' = source
      /\ Animation' = Animation /\ Read' = Read
  BY JobKept
<1>2. applied' = applied => Kept' = Kept
  BY <1>1 DEF Kept
<1>a. alpha \in {"none", "opaque", "clear"} /\ hidden \in BOOLEAN
  BY DEF RTypeOK
<1> USE DEF MetaInv, Covered, OwnWay, Carried, WrittenOut, Unread
<1>3. CASE UNCHANGED rvars
  BY <1>1, <1>2, <1>3 DEF rvars, vars, shown
<1>4. CASE Unseen(CheckRequest)
  BY <1>1, <1>4 DEF Unseen, shown, CheckRequest, Goto
<1>5. CASE Unseen(Peek)
  BY <1>1, <1>5 DEF Unseen, shown, Peek, Goto
<1>6. CASE Unseen(CodecFails)
  BY <1>1, <1>6 DEF Unseen, shown, CodecFails, Goto
<1>7. CASE Unseen(Trim)
  BY <1>1, <1>7 DEF Unseen, shown, Trim, Goto
<1>8. CASE Unseen(CropSource)
  BY <1>1, <1>8 DEF Unseen, shown, CropSource, Goto
<1>9. CASE Unseen(Verify)
  BY <1>1, <1>2, <1>9 DEF Unseen, shown, Verify, Goto
<1>10. CASE ROpenAnimation
  <2>1. /\ stage = "open" /\ Animation /\ exif' = exif
        /\ stage' \in {"source_too_large", "too_many_frames", "frames", "resize"}
        /\ alpha' = IF source.alpha = "none" THEN "opaque" ELSE source.alpha
        /\ hidden' = (source.alpha = "clear")
    BY <1>10 DEF ROpenAnimation, OpenAnimation, Goto
  <2> QED
    BY <1>1, <2>1
<1>11. CASE RDecode
  <2>1. /\ stage = "decode" /\ stage' = "orient"
        /\ exif' = Read.exif /\ icc' = Read.icc
        /\ alpha' = source.alpha /\ hidden' = (source.alpha = "clear")
    BY <1>11 DEF RDecode, DecodeScaled, DecodeFull, Goto, Read
  <2> QED
    BY <1>1, <2>1
<1>12. CASE ROrient
  <2>1. /\ stage = "orient" /\ stage' = "trim"
        /\ UNCHANGED <<exif, icc, alpha, hidden>>
    BY <1>12 DEF ROrient, Orient, Goto
  <2> QED
    BY <1>1, <2>1
<1>13. CASE RResizeAndFilter
  <2>1. /\ stage = "resize" /\ stage' = "canvas"
        /\ exif' = ForwardedExif(request, exif, applied)
        /\ UNCHANGED <<icc, applied, alpha, hidden>>
    BY <1>13 DEF RResizeAndFilter, ResizeAndFilter, Goto
  <2>2. CASE Animation
    <3>1. exif' = {}
      BY <2>1, <2>2, NoneForwarded
    <3> QED
      BY <1>1, <2>1, <2>2, <3>1
  <2>3. CASE ~Animation
    <3>1. exif' = Kept'
      BY <1>2, <2>1, <2>3 DEF Kept
    <3> QED
      BY <1>1, <2>1, <2>3, <3>1
  <2> QED
    BY <2>2, <2>3
<1>14. CASE RGrowCanvas
  <2>1. /\ stage = "canvas" /\ stage' = "verify"
        /\ alpha' = IF alpha = "clear" /\ img' # img THEN "opaque" ELSE alpha
        /\ hidden' = (hidden /\ img' = img)
        /\ UNCHANGED <<exif, icc, applied>>
    BY <1>14 DEF RGrowCanvas, GrowCanvas, Goto
  <2> QED
    BY <1>1, <1>2, <2>1
<1>15. CASE RWatermark
  <2>1. /\ stage = "watermark" /\ stage' = "encode"
        /\ alpha' = IF mark' # {} /\ alpha = "none" THEN "opaque" ELSE alpha
        /\ UNCHANGED <<exif, icc, applied, hidden>>
    BY <1>15 DEF RWatermark, Watermark, Goto
  <2> QED
    BY <1>1, <1>2, <2>1
<1>16. CASE REncode
  <2>1. stage = "encode" /\ stage' \in {"failed", "done"}
    BY <1>16 DEF REncode, Encode, Goto
  <2>2. CASE stage' = "failed"
    <3>1. UNCHANGED shown
      BY <1>16, <2>2 DEF REncode
    <3> QED
      BY <1>1, <1>2, <2>1, <2>2, <3>1 DEF shown
  <2>3. CASE stage' = "done"
    <3>1. request.format # "auto"
      BY <1>16, <2>3 DEF REncode, Encode, Goto
    <3>2. /\ request.format \in {"webp", "png", "jpeg", "avif"} => exif' = exif
          /\ request.format \notin {"webp", "png", "jpeg", "avif"} => exif' = {}
          /\ request.format \in {"webp", "png", "jpeg"} => icc' = icc
          /\ hidden' = (hidden /\ ~Cleans(request))
          /\ applied' = applied
      BY <1>16, <2>3, Written
    <3>3. hidden' = FALSE
      BY <1>a, <3>2 DEF Cleans
    <3>4. CASE Animation
      <4>1. exif' = {}
        BY <2>1, <3>2, <3>4
      <4> QED
        BY <1>1, <2>3, <3>3, <3>4, <4>1
    <3>5. CASE ~Animation
      BY <1>1, <1>2, <2>1, <2>3, <3>1, <3>2, <3>3, <3>5
    <3> QED
      BY <3>4, <3>5
  <2> QED
    BY <2>1, <2>2, <2>3
<1>17. CASE REncodeAnimation
  <2>1. /\ stage = "frames" /\ stage' \in {"failed", "done"}
        /\ hidden' = FALSE /\ UNCHANGED <<exif, icc, applied, alpha>>
    BY <1>17 DEF REncodeAnimation, EncodeAnimation, Goto
  <2> QED
    BY <1>1, <2>1
<1> QED
  BY <1>3, <1>4, <1>5, <1>6, <1>7, <1>8, <1>9, <1>10, <1>11, <1>12, <1>13, <1>14, <1>15,
     <1>16, <1>17 DEF RNext

\* What was read and is wanted is in the result, and nothing else.
LEMMA MetaImplies ==
    ASSUME RTypeOK, MetaInv
    PROVE  MetadataAsAsked
<1> SUFFICES ASSUME stage = "done" PROVE
        /\ ~hidden
        /\ request.strip => exif = {}
        /\ ~request.strip /\ ~Animation /\ request.format # "gif" =>
              \A e \in Decoded(request, source).exif :
                  exif # {} \/ (applied /\ e.tag = {})
        /\ ~Animation /\ source.icc /\ source.kind # "avif"
             /\ request.format \in {"jpeg", "png", "webp"} => icc
  BY DEF MetadataAsAsked
<1>1. ~hidden /\ WrittenOut /\ OwnWay
  BY DEF MetaInv, WrittenOut
<1>2. request.format \in {"jpeg", "png", "webp", "avif", "gif", "auto"}
  BY Job DEF RTypeOK, RequestType, Formats
<1>3. ASSUME request.strip PROVE exif = {}
  <2>1. Kept = {}
    BY <1>3 DEF Kept, ForwardedExif
  <2> QED
    BY <1>1, <2>1 DEF WrittenOut, OwnWay
<1>4. ASSUME ~request.strip, ~Animation, request.format # "gif", NEW e \in Read.exif
      PROVE  exif # {} \/ (applied /\ e.tag = {})
  <2>1. exif = Kept
    BY <1>1, <1>2, <1>4 DEF WrittenOut
  <2>2. CASE ~applied
    <3>1. Kept = Read.exif
      BY <1>4, <2>2 DEF Kept, ForwardedExif
    <3> QED
      BY <1>4, <2>1, <3>1
  <2>3. CASE applied /\ e.tag # {}
    <3>1. Kept = UNION {neutralize_exif_orientation(x) : x \in Read.exif}
      BY <1>4, <2>3 DEF Kept, ForwardedExif
    <3>2. neutralize_exif_orientation(e) # {}
      BY <2>3 DEF neutralize_exif_orientation
    <3> QED
      BY <1>4, <2>1, <3>1, <3>2
  <2> QED
    BY <2>2, <2>3
<1>5. ASSUME ~Animation, source.icc, source.kind # "avif",
             request.format \in {"jpeg", "png", "webp"}
      PROVE  icc
  <2>1. icc = Read.icc
    BY <1>1, <1>5 DEF WrittenOut
  <2>2. Read.icc = source.icc
    BY <1>5 DEF Read, Decoded, decode_jpeg_scaled, decode_webp, decode_with_image_crate
  <2> QED
    BY <1>5, <2>1, <2>2, Zenon
<1> QED
  BY <1>1, <1>3, <1>4, <1>5 DEF Read

-----------------------------------------------------------------------------
(* Which way up. *)

\* With autorotate a still image is as stored until Orient, upright until
\* resize_and_filter and then as the request turns it; the flag says whether
\* there was anything to turn.
Righted == ApplyOrientation(AsStored, Read.orientation)
Uprighted == applied = (Read.orientation # NoTransforms)
ViewInv ==
    request.autorotate /\ ~Animation =>
        /\ stage \in {"check", "open", "decode", "orient"} => view = AsStored
        /\ stage \in {"trim", "crop", "resize"} => view = Righted /\ Uprighted
        /\ stage \in {"canvas", "verify", "watermark", "encode", "done"} =>
              view = Flipped(request, Rotated(request, Righted)) /\ Uprighted

\* The file's pixels are as stored at first.
LEMMA ViewInit == RInit => ViewInv
  BY DEF RInit, Init, ViewInv

\* Orient rights the image, resize_and_filter turns it as asked, no other step
\* turns it, and only Orient sets the flag.
LEMMA ViewStep ==
    ASSUME RTypeOK, MetaInv, ViewInv, [RNext]_rvars
    PROVE  ViewInv'
<1>1. /\ request' = request /\ source' = source
      /\ Animation' = Animation /\ Read' = Read
  BY JobKept
<1>2. Righted' = Righted /\ (applied' = applied => Uprighted' = Uprighted)
  BY <1>1 DEF Righted, Uprighted
<1>3. SUFFICES ASSUME request.autorotate, ~Animation
               PROVE  /\ stage' \in {"check", "open", "decode", "orient"} => view' = AsStored
                      /\ stage' \in {"trim", "crop", "resize"} => view' = Righted /\ Uprighted'
                      /\ stage' \in {"canvas", "verify", "watermark", "encode", "done"} =>
                            /\ view' = Flipped(request, Rotated(request, Righted))
                            /\ Uprighted'
  BY <1>1, <1>2 DEF ViewInv
<1>4. /\ stage \in {"check", "open", "decode", "orient"} => view = AsStored
      /\ stage \in {"trim", "crop", "resize"} => view = Righted /\ Uprighted
      /\ stage \in {"canvas", "verify", "watermark", "encode", "done"} =>
            view = Flipped(request, Rotated(request, Righted)) /\ Uprighted
  BY <1>3 DEF ViewInv
<1>5. stage # "frames"
  BY <1>3 DEF MetaInv, OwnWay
<1>6. CASE UNCHANGED rvars
  BY <1>2, <1>4, <1>6 DEF rvars, vars, shown
<1>7. CASE Unseen(CheckRequest)
  BY <1>4, <1>7 DEF Unseen, shown, CheckRequest, Goto
<1>8. CASE Unseen(Peek)
  BY <1>4, <1>8 DEF Unseen, shown, Peek, Goto
<1>9. CASE Unseen(CodecFails)
  BY <1>9 DEF Unseen, shown, CodecFails, Goto
<1>10. CASE Unseen(Trim)
  BY <1>2, <1>4, <1>10 DEF Unseen, shown, Trim, Goto
<1>11. CASE Unseen(CropSource)
  BY <1>2, <1>4, <1>11 DEF Unseen, shown, CropSource, Goto
<1>12. CASE Unseen(Verify)
  BY <1>2, <1>4, <1>12 DEF Unseen, shown, Verify, Goto
<1>13. CASE ROpenAnimation
  BY <1>3, <1>13 DEF ROpenAnimation, OpenAnimation
<1>14. CASE RDecode
  <2>1. stage = "decode" /\ stage' = "orient" /\ view' = view
    BY <1>14 DEF RDecode, DecodeScaled, DecodeFull, Goto
  <2> QED
    BY <1>4, <2>1
<1>15. CASE ROrient
  <2>1. /\ stage = "orient" /\ stage' = "trim"
        /\ applied' = (request.autorotate /\ Read.orientation # NoTransforms)
        /\ view' = IF request.autorotate THEN ApplyOrientation(view, Read.orientation) ELSE view
    BY <1>15 DEF ROrient, Orient, Goto, Read
  <2>2. view' = Righted
    BY <1>3, <1>4, <2>1 DEF Righted
  <2>3. Uprighted'
    BY <1>1, <1>3, <2>1 DEF Uprighted
  <2> QED
    BY <2>1, <2>2, <2>3
<1>16. CASE RResizeAndFilter
  <2>1. /\ stage = "resize" /\ stage' = "canvas" /\ applied' = applied
        /\ view' = Flipped(request, Rotated(request, view))
    BY <1>16 DEF RResizeAndFilter, ResizeAndFilter, Goto
  <2> QED
    BY <1>2, <1>4, <2>1
<1>17. CASE RGrowCanvas
  <2>1. stage = "canvas" /\ stage' = "verify" /\ UNCHANGED <<view, applied>>
    BY <1>17 DEF RGrowCanvas, GrowCanvas, Goto
  <2> QED
    BY <1>2, <1>4, <2>1
<1>18. CASE RWatermark
  <2>1. stage = "watermark" /\ stage' = "encode" /\ UNCHANGED <<view, applied>>
    BY <1>18 DEF RWatermark, Watermark, Goto
  <2> QED
    BY <1>2, <1>4, <2>1
<1>19. CASE REncode
  <2>1. stage = "encode" /\ stage' \in {"failed", "done"}
    BY <1>19 DEF REncode, Encode, Goto
  <2>2. UNCHANGED <<view, applied>>
    BY <1>19 DEF REncode, shown
  <2> QED
    BY <1>2, <1>4, <2>1, <2>2
<1>20. CASE REncodeAnimation
  BY <1>5, <1>20 DEF REncodeAnimation, EncodeAnimation
<1> QED
  BY <1>6, <1>7, <1>8, <1>9, <1>10, <1>11, <1>12, <1>13, <1>14, <1>15, <1>16, <1>17, <1>18,
     <1>19, <1>20 DEF RNext

-----------------------------------------------------------------------------
(* The transforms of a container, as they are seen. *)

\* Where a transform puts a corner.
Place(t, c) ==
    CASE t = Rotation(0) -> <<c[1], c[2]>>
      [] t = Rotation(1) -> <<c[2], 1 - c[1]>>
      [] t = Rotation(2) -> <<1 - c[1], 1 - c[2]>>
      [] t = Rotation(3) -> <<1 - c[2], c[1]>>
      [] t = Reflection(0) -> <<c[1], 1 - c[2]>>
      [] t = Reflection(1) -> <<1 - c[2], 1 - c[1]>>
      [] t = Reflection(2) -> <<1 - c[1], c[2]>>
      [] t = Reflection(3) -> <<c[2], c[1]>>
Seen(t) == [c \in Corners |-> Place(t, c)]

\* The dihedral group has eight members.
LEMMA TransformIs ==
    ASSUME NEW t \in Transforms
    PROVE  \E k \in 0..3 : t = Rotation(k) \/ t = Reflection(k)
<1>1. t.by \in 0..3 /\ t.mirror \in BOOLEAN /\ t = [mirror |-> t.mirror, by |-> t.by]
  BY DEF Transforms
<1> QED
  BY <1>1 DEF Rotation, Reflection

\* Place, case by case.
LEMMA PlaceIs ==
    ASSUME NEW c
    PROVE  /\ Place(Rotation(0), c) = <<c[1], c[2]>>
           /\ Place(Rotation(1), c) = <<c[2], 1 - c[1]>>
           /\ Place(Rotation(2), c) = <<1 - c[1], 1 - c[2]>>
           /\ Place(Rotation(3), c) = <<1 - c[2], c[1]>>
           /\ Place(Reflection(0), c) = <<c[1], 1 - c[2]>>
           /\ Place(Reflection(1), c) = <<1 - c[2], 1 - c[1]>>
           /\ Place(Reflection(2), c) = <<1 - c[1], c[2]>>
           /\ Place(Reflection(3), c) = <<c[2], c[1]>>
<1>1. \A j, k \in 0..3 : /\ Rotation(j) # Reflection(k)
                         /\ Rotation(j) = Rotation(k) => j = k
                         /\ Reflection(j) = Reflection(k) => j = k
  BY DEF Rotation, Reflection
<1> QED
  BY <1>1 DEF Place

\* Composing with a turn to the left or with either mirror, as Then does it.
LEMMA ThenIs ==
    /\ Then(Rotation(0), Rotation(1)) = Rotation(1)
    /\ Then(Rotation(1), Rotation(1)) = Rotation(2)
    /\ Then(Rotation(2), Rotation(1)) = Rotation(3)
    /\ Then(Rotation(3), Rotation(1)) = Rotation(0)
    /\ Then(Reflection(0), Rotation(1)) = Reflection(1)
    /\ Then(Reflection(1), Rotation(1)) = Reflection(2)
    /\ Then(Reflection(2), Rotation(1)) = Reflection(3)
    /\ Then(Reflection(3), Rotation(1)) = Reflection(0)
    /\ Then(Rotation(0), Reflection(0)) = Reflection(0)
    /\ Then(Rotation(1), Reflection(0)) = Reflection(3)
    /\ Then(Rotation(2), Reflection(0)) = Reflection(2)
    /\ Then(Rotation(3), Reflection(0)) = Reflection(1)
    /\ Then(Reflection(0), Reflection(0)) = Rotation(0)
    /\ Then(Reflection(1), Reflection(0)) = Rotation(3)
    /\ Then(Reflection(2), Reflection(0)) = Rotation(2)
    /\ Then(Reflection(3), Reflection(0)) = Rotation(1)
    /\ Then(Rotation(0), Reflection(2)) = Reflection(2)
    /\ Then(Rotation(1), Reflection(2)) = Reflection(1)
    /\ Then(Rotation(2), Reflection(2)) = Reflection(0)
    /\ Then(Rotation(3), Reflection(2)) = Reflection(3)
    /\ Then(Reflection(0), Reflection(2)) = Rotation(2)
    /\ Then(Reflection(1), Reflection(2)) = Rotation(1)
    /\ Then(Reflection(2), Reflection(2)) = Rotation(0)
    /\ Then(Reflection(3), Reflection(2)) = Rotation(3)
<1>1. ASSUME NEW j \in 0..3, NEW k \in 0..3
      PROVE  /\ Then(Rotation(j), Rotation(k)) = Rotation((j + k) % 4)
             /\ Then(Reflection(j), Rotation(k)) = Reflection((j + k) % 4)
             /\ Then(Rotation(j), Reflection(k)) = Reflection((k + 4 - j) % 4)
             /\ Then(Reflection(j), Reflection(k)) = Rotation((k + 4 - j) % 4)
  BY DEF Then, Rotation, Reflection
<1>2. /\ (0 + 1) % 4 = 1 /\ (1 + 1) % 4 = 2 /\ (2 + 1) % 4 = 3 /\ (3 + 1) % 4 = 0
      /\ (0 + 4 - 0) % 4 = 0 /\ (0 + 4 - 1) % 4 = 3 /\ (0 + 4 - 2) % 4 = 2 /\ (0 + 4 - 3) % 4 = 1
      /\ (2 + 4 - 0) % 4 = 2 /\ (2 + 4 - 1) % 4 = 1 /\ (2 + 4 - 2) % 4 = 0 /\ (2 + 4 - 3) % 4 = 3
  OBVIOUS
<1>3. 0 \in 0..3 /\ 1 \in 0..3 /\ 2 \in 0..3 /\ 3 \in 0..3
  OBVIOUS
<1> HIDE DEF Then, Rotation, Reflection
<1> QED
  BY <1>1, <1>2, <1>3

\* What Then composes is what a viewer sees who does one after the other.
LEMMA SeenThen ==
    ASSUME NEW t \in Transforms
    PROVE  /\ TurnLeft(Seen(t)) = Seen(Then(t, Rotation(1)))
           /\ FlipV(Seen(t)) = Seen(Then(t, Reflection(0)))
           /\ FlipH(Seen(t)) = Seen(Then(t, Reflection(2)))
<1>1. \A c \in Corners : c[1] \in 0..1 /\ c[2] \in 0..1
  BY DEF Corners
<1>2. \A x \in 0..1 : 1 - (1 - x) = x
  OBVIOUS
<1>3. \A c \in Corners : Seen(t)[c] = Place(t, c)
  BY DEF Seen
<1>4. /\ TurnLeft(Seen(t)) = [c \in Corners |-> <<Place(t, c)[2], 1 - Place(t, c)[1]>>]
      /\ FlipV(Seen(t)) = [c \in Corners |-> <<Place(t, c)[1], 1 - Place(t, c)[2]>>]
      /\ FlipH(Seen(t)) = [c \in Corners |-> <<1 - Place(t, c)[1], Place(t, c)[2]>>]
  BY <1>3 DEF TurnLeft, FlipV, FlipH
<1>5. ASSUME NEW c \in Corners
      PROVE  /\ <<Place(t, c)[2], 1 - Place(t, c)[1]>> = Place(Then(t, Rotation(1)), c)
             /\ <<Place(t, c)[1], 1 - Place(t, c)[2]>> = Place(Then(t, Reflection(0)), c)
             /\ <<1 - Place(t, c)[1], Place(t, c)[2]>> = Place(Then(t, Reflection(2)), c)
  <2> DEFINE x == c[1]  y == c[2]
  <2>1. x \in 0..1 /\ y \in 0..1 /\ 1 - (1 - x) = x /\ 1 - (1 - y) = y
    BY <1>1, <1>2
  <2>2. \E k \in 0..3 : t = Rotation(k) \/ t = Reflection(k)
    BY TransformIs
  <2>p. /\ Place(Rotation(0), c) = <<x, y>>
        /\ Place(Rotation(1), c) = <<y, 1 - x>>
        /\ Place(Rotation(2), c) = <<1 - x, 1 - y>>
        /\ Place(Rotation(3), c) = <<1 - y, x>>
        /\ Place(Reflection(0), c) = <<x, 1 - y>>
        /\ Place(Reflection(1), c) = <<1 - y, 1 - x>>
        /\ Place(Reflection(2), c) = <<1 - x, y>>
        /\ Place(Reflection(3), c) = <<y, x>>
    BY PlaceIs
  <2> HIDE DEF Place, x, y
  <2>3. CASE t = Rotation(0)
    <3>1. /\ Then(t, Rotation(1)) = Rotation(1) /\ Then(t, Reflection(0)) = Reflection(0)
          /\ Then(t, Reflection(2)) = Reflection(2)
      BY <2>3, ThenIs
    <3>2. Place(t, c) = <<x, y>>
      BY <2>3, <2>p
    <3> QED
      BY <2>1, <2>p, <3>1, <3>2
  <2>4. CASE t = Rotation(1)
    <3>1. /\ Then(t, Rotation(1)) = Rotation(2) /\ Then(t, Reflection(0)) = Reflection(3)
          /\ Then(t, Reflection(2)) = Reflection(1)
      BY <2>4, ThenIs
    <3>2. Place(t, c) = <<y, 1 - x>>
      BY <2>4, <2>p
    <3> QED
      BY <2>1, <2>p, <3>1, <3>2
  <2>5. CASE t = Rotation(2)
    <3>1. /\ Then(t, Rotation(1)) = Rotation(3) /\ Then(t, Reflection(0)) = Reflection(2)
          /\ Then(t, Reflection(2)) = Reflection(0)
      BY <2>5, ThenIs
    <3>2. Place(t, c) = <<1 - x, 1 - y>>
      BY <2>5, <2>p
    <3> QED
      BY <2>1, <2>p, <3>1, <3>2
  <2>6. CASE t = Rotation(3)
    <3>1. /\ Then(t, Rotation(1)) = Rotation(0) /\ Then(t, Reflection(0)) = Reflection(1)
          /\ Then(t, Reflection(2)) = Reflection(3)
      BY <2>6, ThenIs
    <3>2. Place(t, c) = <<1 - y, x>>
      BY <2>6, <2>p
    <3> QED
      BY <2>1, <2>p, <3>1, <3>2
  <2>7. CASE t = Reflection(0)
    <3>1. /\ Then(t, Rotation(1)) = Reflection(1) /\ Then(t, Reflection(0)) = Rotation(0)
          /\ Then(t, Reflection(2)) = Rotation(2)
      BY <2>7, ThenIs
    <3>2. Place(t, c) = <<x, 1 - y>>
      BY <2>7, <2>p
    <3> QED
      BY <2>1, <2>p, <3>1, <3>2
  <2>8. CASE t = Reflection(1)
    <3>1. /\ Then(t, Rotation(1)) = Reflection(2) /\ Then(t, Reflection(0)) = Rotation(3)
          /\ Then(t, Reflection(2)) = Rotation(1)
      BY <2>8, ThenIs
    <3>2. Place(t, c) = <<1 - y, 1 - x>>
      BY <2>8, <2>p
    <3> QED
      BY <2>1, <2>p, <3>1, <3>2
  <2>9. CASE t = Reflection(2)
    <3>1. /\ Then(t, Rotation(1)) = Reflection(3) /\ Then(t, Reflection(0)) = Rotation(2)
          /\ Then(t, Reflection(2)) = Rotation(0)
      BY <2>9, ThenIs
    <3>2. Place(t, c) = <<1 - x, y>>
      BY <2>9, <2>p
    <3> QED
      BY <2>1, <2>p, <3>1, <3>2
  <2>10. CASE t = Reflection(3)
    <3>1. /\ Then(t, Rotation(1)) = Reflection(0) /\ Then(t, Reflection(0)) = Rotation(1)
          /\ Then(t, Reflection(2)) = Rotation(3)
      BY <2>10, ThenIs
    <3>2. Place(t, c) = <<y, x>>
      BY <2>10, <2>p
    <3> QED
      BY <2>1, <2>p, <3>1, <3>2
  <2>11. \E k \in {0, 1, 2, 3} : t = Rotation(k) \/ t = Reflection(k)
    BY <2>2
  <2> QED
    BY <2>3, <2>4, <2>5, <2>6, <2>7, <2>8, <2>9, <2>10, <2>11
<1> QED
  BY <1>4, <1>5 DEF Seen

\* A turn to the right undoes one to the left.
LEMMA SeenRight ==
    /\ AsStored = Seen(Rotation(0))
    /\ TurnRight(Seen(Rotation(0))) = Seen(Rotation(3))
    /\ TurnRight(Seen(Rotation(3))) = Seen(Rotation(2))
    /\ TurnRight(Seen(Rotation(2))) = Seen(Rotation(1))
<1>1. \A c \in Corners : /\ c[1] \in 0..1 /\ c[2] \in 0..1 /\ c = <<c[1], c[2]>>
                         /\ 1 - (1 - c[1]) = c[1] /\ 1 - (1 - c[2]) = c[2]
  BY DEF Corners
<1>2. \A t : \A c \in Corners : Seen(t)[c] = Place(t, c)
  BY DEF Seen
<1>3. AsStored = Seen(Rotation(0))
  BY <1>1, PlaceIs DEF AsStored, Seen
<1>4. ASSUME NEW t, NEW u,
             \A c \in Corners : <<1 - Place(t, c)[2], Place(t, c)[1]>> = Place(u, c)
      PROVE  TurnRight(Seen(t)) = Seen(u)
  <2>1. TurnRight(Seen(t)) = [c \in Corners |-> <<1 - Place(t, c)[2], Place(t, c)[1]>>]
    BY <1>2 DEF TurnRight
  <2> QED
    BY <1>4, <2>1 DEF Seen
<1>5. TurnRight(Seen(Rotation(0))) = Seen(Rotation(3))
  BY <1>1, <1>4, PlaceIs
<1>6. TurnRight(Seen(Rotation(3))) = Seen(Rotation(2))
  BY <1>1, <1>4, PlaceIs
<1>7. TurnRight(Seen(Rotation(2))) = Seen(Rotation(1))
  BY <1>1, <1>4, PlaceIs
<1> QED
  BY <1>3, <1>5, <1>6, <1>7

\* into_orientation names the orientation that shows what the transform does.
LEMMA SeenOriented ==
    ASSUME NEW t \in Transforms
    PROVE  ApplyOrientation(AsStored, IntoOrientation(t)) = Seen(t)
<1>1. /\ Turned(AsStored, 0) = Seen(Rotation(0))
      /\ Turned(AsStored, 1) = Seen(Rotation(3))
      /\ Turned(AsStored, 2) = Seen(Rotation(2))
      /\ Turned(AsStored, 3) = Seen(Rotation(1))
  BY SeenRight DEF Turned
<1>2. \A k \in 0..3 : Rotation(k) \in Transforms
  BY DEF Rotation, Transforms
<1>3. /\ FlipH(Seen(Rotation(0))) = Seen(Reflection(2))
      /\ FlipH(Seen(Rotation(1))) = Seen(Reflection(1))
      /\ FlipH(Seen(Rotation(2))) = Seen(Reflection(0))
      /\ FlipH(Seen(Rotation(3))) = Seen(Reflection(3))
  BY <1>2, SeenThen, ThenIs
<1>4. /\ IntoOrientation(Rotation(0)) = [turns |-> 0, flip |-> FALSE]
      /\ IntoOrientation(Rotation(1)) = [turns |-> 3, flip |-> FALSE]
      /\ IntoOrientation(Rotation(2)) = [turns |-> 2, flip |-> FALSE]
      /\ IntoOrientation(Rotation(3)) = [turns |-> 1, flip |-> FALSE]
      /\ IntoOrientation(Reflection(0)) = [turns |-> 2, flip |-> TRUE]
      /\ IntoOrientation(Reflection(1)) = [turns |-> 3, flip |-> TRUE]
      /\ IntoOrientation(Reflection(2)) = [turns |-> 0, flip |-> TRUE]
      /\ IntoOrientation(Reflection(3)) = [turns |-> 1, flip |-> TRUE]
  BY DEF IntoOrientation, Rotation, Reflection
<1>5. ASSUME NEW n \in 0..3
      PROVE  /\ ApplyOrientation(AsStored, [turns |-> n, flip |-> FALSE]) = Turned(AsStored, n)
             /\ ApplyOrientation(AsStored, [turns |-> n, flip |-> TRUE]) = FlipH(Turned(AsStored, n))
  BY DEF ApplyOrientation
<1>6. 0 \in 0..3 /\ 1 \in 0..3 /\ 2 \in 0..3 /\ 3 \in 0..3
  OBVIOUS
<1>7. \E k \in {0, 1, 2, 3} : t = Rotation(k) \/ t = Reflection(k)
  BY TransformIs
<1>8. CASE t = Rotation(0)
  BY <1>1, <1>4, <1>5, <1>6, <1>8
<1>9. CASE t = Rotation(1)
  BY <1>1, <1>4, <1>5, <1>6, <1>9
<1>10. CASE t = Rotation(2)
  BY <1>1, <1>4, <1>5, <1>6, <1>10
<1>11. CASE t = Rotation(3)
  BY <1>1, <1>4, <1>5, <1>6, <1>11
<1>12. CASE t = Reflection(0)
  BY <1>1, <1>3, <1>4, <1>5, <1>6, <1>12
<1>13. CASE t = Reflection(1)
  BY <1>1, <1>3, <1>4, <1>5, <1>6, <1>13
<1>14. CASE t = Reflection(2)
  BY <1>1, <1>3, <1>4, <1>5, <1>6, <1>14
<1>15. CASE t = Reflection(3)
  BY <1>1, <1>3, <1>4, <1>5, <1>6, <1>15
<1> QED
  BY <1>7, <1>8, <1>9, <1>10, <1>11, <1>12, <1>13, <1>14, <1>15

\* Turns to the left add up.
LEMMA ThenTurns ==
    ASSUME NEW t \in Transforms
    PROVE  /\ Then(t, Rotation(0)) = t
           /\ Then(Then(t, Rotation(1)), Rotation(1)) = Then(t, Rotation(2))
           /\ Then(Then(t, Rotation(2)), Rotation(1)) = Then(t, Rotation(3))
<1>1. t.by \in 0..3 /\ t.mirror \in BOOLEAN /\ t = [mirror |-> t.mirror, by |-> t.by]
  BY DEF Transforms
<1>2. ASSUME NEW k \in 0..3
      PROVE  Then(t, Rotation(k)) = [mirror |-> t.mirror, by |-> (t.by + k) % 4]
  BY <1>1 DEF Then, Rotation
<1>3. ASSUME NEW b \in 0..3
      PROVE  Then([mirror |-> t.mirror, by |-> b], Rotation(1)) =
                [mirror |-> t.mirror, by |-> (b + 1) % 4]
  BY <1>1 DEF Then, Rotation
<1>4. /\ (t.by + 0) % 4 = t.by
      /\ (t.by + 1) % 4 \in 0..3 /\ (t.by + 2) % 4 \in 0..3
      /\ (((t.by + 1) % 4) + 1) % 4 = (t.by + 2) % 4
      /\ (((t.by + 2) % 4) + 1) % 4 = (t.by + 3) % 4
  BY <1>1
<1>5. 0 \in 0..3 /\ 1 \in 0..3 /\ 2 \in 0..3 /\ 3 \in 0..3
  OBVIOUS
<1>6. Then(t, Rotation(0)) = t
  BY <1>1, <1>2, <1>4, <1>5
<1>7. Then(Then(t, Rotation(1)), Rotation(1)) = Then(t, Rotation(2))
  BY <1>2, <1>3, <1>4, <1>5
<1>8. Then(Then(t, Rotation(2)), Rotation(1)) = Then(t, Rotation(3))
  BY <1>2, <1>3, <1>4, <1>5
<1> QED
  BY <1>6, <1>7, <1>8

\* A property box does to what is seen what TransformProperty does to the
\* transform.
LEMMA ViewerStepIs ==
    ASSUME NEW t \in Transforms, NEW box, IsBox(box)
    PROVE  /\ box.type = "irot" =>
                 ViewerStep(Seen(t), box) = Seen(Then(t, Rotation(box.value % 4)))
           /\ box.type = "imir" =>
                 ViewerStep(Seen(t), box) =
                     Seen(Then(t, Reflection(IF box.value % 2 = 0 THEN 2 ELSE 0)))
           /\ box.type \notin {"irot", "imir"} => ViewerStep(Seen(t), box) = Seen(t)
<1> DEFINE v == Seen(t)
           n == box.value
<1>1. /\ TurnLeft(v) = Seen(Then(t, Rotation(1)))
      /\ FlipV(v) = Seen(Then(t, Reflection(0)))
      /\ FlipH(v) = Seen(Then(t, Reflection(2)))
  BY SeenThen
<1>2. Then(t, Rotation(1)) \in Transforms /\ Then(t, Rotation(2)) \in Transforms
  <2>1. Rotation(1) \in Transforms /\ Rotation(2) \in Transforms
    BY DEF Rotation, Transforms
  <2> QED
    BY <2>1, ThenType
<1>3. /\ TurnLeft(TurnLeft(v)) = Seen(Then(t, Rotation(2)))
      /\ TurnLeft(TurnLeft(TurnLeft(v))) = Seen(Then(t, Rotation(3)))
  BY <1>1, <1>2, SeenThen, ThenTurns
<1>4. Seen(Then(t, Rotation(0))) = v
  BY ThenTurns
<1>5. box.type \in {"irot", "imir"} => n \in Nat /\ n % 4 \in 0..3 /\ n % 2 \in 0..1
  BY DEF IsBox
<1>6. ViewerStep(v, box) =
          CASE box.type = "irot" /\ n % 4 = 1 -> TurnLeft(v)
            [] box.type = "irot" /\ n % 4 = 2 -> TurnLeft(TurnLeft(v))
            [] box.type = "irot" /\ n % 4 = 3 -> TurnLeft(TurnLeft(TurnLeft(v)))
            [] box.type = "imir" /\ n % 2 = 0 -> FlipH(v)
            [] box.type = "imir" /\ n % 2 = 1 -> FlipV(v)
            [] OTHER -> v
  BY DEF ViewerStep
<1> DEFINE seen == ViewerStep(v, box)
<1> HIDE DEF v, seen
<1>7. ASSUME box.type = "irot" PROVE seen = Seen(Then(t, Rotation(n % 4)))
  <2>1. CASE n % 4 = 0
    BY <1>4, <1>6, <1>7, <2>1 DEF seen
  <2>2. CASE n % 4 = 1
    BY <1>1, <1>6, <1>7, <2>2 DEF seen
  <2>3. CASE n % 4 = 2
    BY <1>3, <1>6, <1>7, <2>3 DEF seen
  <2>4. CASE n % 4 = 3
    BY <1>3, <1>6, <1>7, <2>4 DEF seen
  <2> QED
    BY <1>5, <1>7, <2>1, <2>2, <2>3, <2>4
<1>8. ASSUME box.type = "imir"
      PROVE  seen = Seen(Then(t, Reflection(IF n % 2 = 0 THEN 2 ELSE 0)))
  <2>1. CASE n % 2 = 0
    BY <1>1, <1>6, <1>8, <2>1 DEF seen
  <2>2. CASE n % 2 = 1
    BY <1>1, <1>6, <1>8, <2>2 DEF seen
  <2> QED
    BY <1>5, <1>8, <2>1, <2>2
<1>9. ASSUME box.type \notin {"irot", "imir"} PROVE seen = v
  BY <1>6, <1>9 DEF seen
<1> QED
  BY <1>7, <1>8, <1>9 DEF seen, v

\* A viewer goes through the properties of the item one by one.
LEMMA ViewedDef ==
    ASSUME NEW properties, NEW T, NEW indices \in Seq(T)
    PROVE  \E f : /\ f[0] = AsStored
                  /\ \A n \in 1..Len(indices) :
                        f[n] = IF indices[n] \in DOMAIN properties
                               THEN ViewerStep(f[n - 1], properties[indices[n]]) ELSE f[n - 1]
                  /\ Viewed(properties, indices) = f[Len(indices)]
<1> DEFINE N == Len(indices)
           Step(t, n) == IF indices[n] \in DOMAIN properties
                         THEN ViewerStep(t, properties[indices[n]]) ELSE t
           Body(g, n) == IF n = 0 THEN AsStored
                         ELSE IF indices[n] \in DOMAIN properties
                              THEN ViewerStep(g[n - 1], properties[indices[n]])
                              ELSE g[n - 1]
           Has(n) == n <= N => \E g : g = [i \in 0..n |-> Body(g, i)]
           S == {n \in Nat : Has(n)}
<1>n. N \in Nat
  OBVIOUS
<1> HIDE DEF N
<1>s. \A g : \A n : Body(g, n) = IF n = 0 THEN AsStored ELSE Step(g[n - 1], n)
  OBVIOUS
<1> HIDE DEF Body
<1>1. Has(0)
  <2> DEFINE g == [i \in 0..0 |-> AsStored]
  <2>1. \A i \in 0..0 : Body(g, i) = AsStored
    BY <1>s
  <2>2. g = [i \in 0..0 |-> Body(g, i)]
    BY <2>1
  <2> QED
    BY <2>2, Zenon
<1>2. ASSUME NEW n \in Nat, Has(n) PROVE Has(n + 1)
  <2>0. SUFFICES ASSUME n + 1 <= N PROVE \E g : g = [i \in 0..(n + 1) |-> Body(g, i)]
    BY Zenon
  <2>1. n <= N
    BY <2>0, <1>n
  <2>2. PICK g : g = [i \in 0..n |-> Body(g, i)]
    BY <1>2, <2>1, Zenon
  <2> DEFINE h == [i \in 0..(n + 1) |-> IF i = n + 1 THEN Step(g[n], i) ELSE g[i]]
  <2>3. ASSUME NEW i \in 0..(n + 1) PROVE h[i] = Body(h, i)
    <3> HIDE DEF Step
    <3>1. CASE i = n + 1
      <4>1. h[i] = Step(g[n], i) /\ h[i - 1] = g[n] /\ i # 0
        BY <3>1
      <4> QED
        BY <4>1, <1>s, Zenon
    <3>2. CASE i \in 0..n
      <4>1. h[i] = g[i] /\ (i # 0 => h[i - 1] = g[i - 1])
        BY <3>2
      <4>2. g[i] = Body(g, i)
        BY <3>2, <2>2, Zenon
      <4> HIDE DEF h
      <4> QED
        BY <4>1, <4>2, <1>s
    <3> QED
      BY <3>1, <3>2
  <2>4. h = [i \in 0..(n + 1) |-> Body(h, i)]
    <3>1. h = [i \in 0..(n + 1) |-> h[i]]
      <4> HIDE DEF Step
      <4> QED
        OBVIOUS
    <3> HIDE DEF h
    <3> QED
      BY <2>3, <3>1
  <2> QED
    BY <2>4, Zenon
<1>3. Has(N)
  <2> HIDE DEF Has
  <2>1. 0 \in S /\ \A n \in Nat : n \in S => n + 1 \in S
    BY <1>1, <1>2
  <2>2. Nat \subseteq S
    <3> HIDE DEF S
    <3> QED
      BY <2>1, SetInduction
  <2> QED
    BY <2>2, <1>n
<1>4. \E g : g = [i \in 0..N |-> Body(g, i)]
  <2>1. N <= N
    BY <1>n
  <2> QED
    BY <1>3, <2>1, Zenon
<1> DEFINE f[n \in 0..Len(indices)] ==
               IF n = 0 THEN AsStored
               ELSE IF indices[n] \in DOMAIN properties
                    THEN ViewerStep(f[n - 1], properties[indices[n]])
                    ELSE f[n - 1]
<1>5. f = [i \in 0..N |-> Body(f, i)]
  BY <1>4, Zenon DEF N, Body
<1>6. Viewed(properties, indices) = f[N]
  BY DEF Viewed, N
<1> HIDE DEF f
<1>7. /\ f[0] = AsStored
      /\ \A n \in 1..N : f[n] = Step(f[n - 1], n)
  <2>1. 0 \in 0..N /\ 0 = 0 /\ \A i \in 1..N : i \in 0..N /\ i # 0
    BY <1>n
  <2>2. DOMAIN f = 0..N /\ \A i \in 0..N : f[i] = Body(f, i)
    BY <1>5, Zenon
  <2> HIDE DEF Step
  <2> QED
    BY <2>1, <2>2, <1>s, Zenon
<1> QED
  BY <1>6, <1>7 DEF N

\* What a viewer sees at the end is what resolve_orientation composes.
LEMMA ViewedIsComposed ==
    ASSUME NEW S, \A b \in S : IsBox(b), NEW properties \in Seq(S), NEW T, NEW indices \in Seq(T)
    PROVE  /\ Composed(collect_properties(properties), indices) \in Transforms
           /\ Viewed(properties, indices) =
                 Seen(Composed(collect_properties(properties), indices))
<1> DEFINE P == collect_properties(properties)
           N == Len(indices)
<1>n. N \in Nat
  OBVIOUS
<1>1. \A i \in DOMAIN P : P[i] \in Transforms
  BY CollectedType
<1>2. /\ DOMAIN P = {i \in DOMAIN properties : properties[i].type \in {"irot", "imir"}}
      /\ \A i \in DOMAIN P :
            /\ properties[i].type = "irot" => P[i] = Rotation(properties[i].value % 4)
            /\ properties[i].type = "imir" =>
                  P[i] = Reflection(IF properties[i].value % 2 = 0 THEN 2 ELSE 0)
  BY DEF collect_properties
<1> HIDE DEF P
<1>3. PICK t \in [0..N -> Transforms] : IsComposition(t, P, indices)
  BY <1>1, ComposedDef
<1>c. /\ t[0] = Rotation(0)
      /\ \A n \in 1..N : t[n] = IF indices[n] \in DOMAIN P
                                THEN Then(t[n - 1], P[indices[n]]) ELSE t[n - 1]
      /\ Composed(P, indices) = t[N]
  BY <1>3 DEF IsComposition
<1>4. PICK f : /\ f[0] = AsStored
               /\ \A n \in 1..N : f[n] = IF indices[n] \in DOMAIN properties
                                         THEN ViewerStep(f[n - 1], properties[indices[n]])
                                         ELSE f[n - 1]
               /\ Viewed(properties, indices) = f[N]
  BY ViewedDef
<1> HIDE DEF N
<1> DEFINE U == {n \in Nat : n \in 0..N => f[n] = Seen(t[n])}
<1>5. 0 \in U
  BY <1>c, <1>4, SeenRight
<1>6. ASSUME NEW n \in Nat, n \in U PROVE n + 1 \in U
  <2> SUFFICES ASSUME n + 1 \in 0..N PROVE f[n + 1] = Seen(t[n + 1])
    OBVIOUS
  <2>1. n \in 0..N /\ n + 1 \in 1..N /\ (n + 1) - 1 = n
    BY <1>n
  <2>2. f[n] = Seen(t[n]) /\ t[n] \in Transforms
    BY <1>3, <1>6, <2>1
  <2> DEFINE i == indices[n + 1]
  <2>3. /\ t[n + 1] = IF i \in DOMAIN P THEN Then(t[n], P[i]) ELSE t[n]
        /\ f[n + 1] = IF i \in DOMAIN properties THEN ViewerStep(f[n], properties[i]) ELSE f[n]
    BY <1>c, <1>4, <2>1
  <2> HIDE DEF i
  <2>4. CASE i \notin DOMAIN properties
    <3>1. i \notin DOMAIN P
      BY <1>2, <2>4
    <3> QED
      BY <2>2, <2>3, <2>4, <3>1
  <2>5. CASE i \in DOMAIN properties
    <3>1. IsBox(properties[i])
      BY <2>5
    <3>2. /\ properties[i].type = "irot" =>
                ViewerStep(f[n], properties[i]) = Seen(Then(t[n], Rotation(properties[i].value % 4)))
          /\ properties[i].type = "imir" =>
                ViewerStep(f[n], properties[i]) =
                    Seen(Then(t[n], Reflection(IF properties[i].value % 2 = 0 THEN 2 ELSE 0)))
          /\ properties[i].type \notin {"irot", "imir"} => ViewerStep(f[n], properties[i]) = Seen(t[n])
      BY <2>2, <3>1, ViewerStepIs
    <3>3. CASE i \in DOMAIN P
      <4>1. ViewerStep(f[n], properties[i]) = Seen(Then(t[n], P[i]))
        BY <1>2, <3>2, <3>3
      <4> QED
        BY <2>3, <2>5, <3>3, <4>1
    <3>4. CASE i \notin DOMAIN P
      <4>1. ViewerStep(f[n], properties[i]) = Seen(t[n])
        BY <1>2, <2>5, <3>2, <3>4
      <4> QED
        BY <2>3, <2>5, <3>4, <4>1
    <3> QED
      BY <3>3, <3>4
  <2> QED
    BY <2>4, <2>5
<1>7. Nat \subseteq U
  <2> HIDE DEF U
  <2> QED
    BY <1>5, <1>6, SetInduction
<1>8. N \in 0..N
  BY <1>n
<1>9. f[N] = Seen(t[N]) /\ t[N] \in Transforms
  BY <1>3, <1>7, <1>8
<1> QED
  BY <1>c, <1>4, <1>9 DEF P

-----------------------------------------------------------------------------
(* A container read whole is read the way a viewer reads it. *)

\* The boxes in the first box of a type, one depth further down.
LEMMA ChildrenType ==
    ASSUME NEW S, \A b \in S : IsBox(b), NEW boxes \in Seq(S), NEW type \in Parents
    PROVE  Children(boxes, type) \in Seq(Inside(S))
<1> DEFINE found == FirstBox(boxes, type)
<1>1. \A b \in found : b \in S /\ b.type = type
  BY FirstBoxIs
<1>2. Children(boxes, type) = IF found = {} THEN <<>> ELSE The(found).boxes
  BY DEF Children
<1> HIDE DEF found
<1>3. CASE found = {}
  <2>1. <<>> \in Seq(Inside(S))
    OBVIOUS
  <2> QED
    BY <1>2, <1>3, <2>1
<1>4. CASE found # {}
  <2>1. The(found) \in S /\ The(found).type = type
    BY <1>1, <1>4, TheIs
  <2>2. The(found).boxes \in Seq(Inside(S))
    BY <2>1, InsideIs
  <2> QED
    BY <1>2, <1>4, <2>2
<1> QED
  BY <1>3, <1>4

\* No box, nothing found.
LEMMA FirstOfNone ==
    ASSUME NEW type
    PROVE  FirstBox(<<>>, type) = {}
  BY DEF FirstBox, First

\* Properties that do not transform compose to no transform.
LEMMA ComposedNothing ==
    ASSUME NEW properties, NEW T, NEW indices \in Seq(T),
           DOMAIN properties = {} \/ Len(indices) = 0,
           \A i \in DOMAIN properties : properties[i] \in Transforms
    PROVE  Composed(properties, indices) = Rotation(0)
<1> DEFINE N == Len(indices)
<1>n. N \in Nat
  OBVIOUS
<1>1. PICK f \in [0..N -> Transforms] : IsComposition(f, properties, indices)
  BY ComposedDef
<1>2. /\ f[0] = Rotation(0)
      /\ \A n \in 1..N : DOMAIN properties = {} => f[n] = f[n - 1]
      /\ Composed(properties, indices) = f[N]
  BY <1>1 DEF IsComposition
<1>3. CASE N = 0
  BY <1>2, <1>3
<1>4. CASE DOMAIN properties = {}
  <2> HIDE DEF N
  <2> DEFINE U == {n \in Nat : n \in 0..N => f[n] = Rotation(0)}
  <2>1. 0 \in U
    BY <1>2
  <2>2. ASSUME NEW n \in Nat, n \in U PROVE n + 1 \in U
    <3> SUFFICES ASSUME n + 1 \in 0..N PROVE f[n + 1] = Rotation(0)
      OBVIOUS
    <3>1. n \in 0..N /\ n + 1 \in 1..N /\ (n + 1) - 1 = n
      BY <1>n
    <3> QED
      BY <1>2, <1>4, <2>2, <3>1
  <2>3. Nat \subseteq U
    <3> HIDE DEF U
    <3> QED
      BY <2>1, <2>2, SetInduction
  <2>4. N \in 0..N
    BY <1>n
  <2> QED
    BY <1>2, <1>n, <2>3, <2>4
<1> QED
  BY <1>3, <1>4

\* The properties of the primary item are a sequence, and the one the item's
\* first entry gives.
LEMMA PrimaryIs ==
    ASSUME NEW S, \A b \in S : IsBox(b), NEW boxes \in Seq(S),
           NEW item
    PROVE  LET indices == UNION {parse_primary_item_associations(b, item) :
                                    b \in FirstBox(boxes, "ipma")}
               entries == UNION {EntryOf(b.entries, item) : b \in FirstBox(boxes, "ipma")}
           IN  /\ indices = {e.indices : e \in entries}
               /\ IsOption(entries)
               /\ \A e \in entries : IsSequence(e.indices)
<1> DEFINE found == FirstBox(boxes, "ipma")
           indices == UNION {parse_primary_item_associations(b, item) : b \in found}
           entries == UNION {EntryOf(b.entries, item) : b \in found}
<1>1. /\ \A b \in found : IsBox(b) /\ b.type = "ipma"
      /\ IsOption(found)
  BY FirstBoxIs
<1> HIDE DEF found
<1>2. indices = {e.indices : e \in entries}
  BY DEF parse_primary_item_associations
<1>3. ASSUME NEW b \in found
      PROVE  IsOption(EntryOf(b.entries, item))
             /\ \A e \in EntryOf(b.entries, item) : IsSequence(e.indices)
  <2>1. b.entries \in Seq(Range(b.entries)) /\ \A e \in Range(b.entries) : IsSequence(e.indices)
    BY <1>1 DEF IsBox, IsSequence
  <2> QED
    BY <2>1, EntryOfIs
<1>4. IsOption(entries)
  BY <1>1, <1>3 DEF IsOption
<1>5. \A e \in entries : IsSequence(e.indices)
  BY <1>3
<1> QED
  BY <1>2, <1>4, <1>5 DEF found

\* Of a container read whole parse gives the transforms of the primary item, each
\* in its place, composed: no budget, no missing box makes a difference.
LEMMA SoundParse ==
    ASSUME NEW c, IsContainer(c), Sound(c)
    PROVE  /\ \E S : (\A b \in S : IsBox(b)) /\ Properties(c) \in Seq(S)
           /\ IsSequence(PrimaryProperties(c))
           /\ Parse(c).orientation =
                 IntoOrientation(Composed(collect_properties(Properties(c)), PrimaryProperties(c)))
<1> DEFINE first == Range(c)
           second == Inside(first)
           third == Inside(second)
           fourth == Inside(third)
           m == MetaBoxes(c)
           p == PropertyBoxes(c)
           q == Properties(c)
           pp == PrimaryProperties(c)
           budget == MaxBoxesVisited - Len(c) - Len(m)
           pitm == FirstBox(m, "pitm")
           iprp == FirstBox(m, "iprp")
           ipco == FirstBox(p, "ipco")
           turned == resolve_orientation(pitm, iprp, budget)
<1>1. /\ c \in Seq(first)
      /\ \A b \in first \cup second \cup third \cup fourth : IsBox(b)
  BY ContainerDepths
<1> HIDE DEF first
<1>2. m \in Seq(second)
  BY <1>1, ChildrenType DEF MetaBoxes, Parents
<1> HIDE DEF second, m
<1>3. p \in Seq(third)
  BY <1>1, <1>2, ChildrenType DEF PropertyBoxes, Parents, m
<1> HIDE DEF third, p
<1>4. q \in Seq(fourth)
  BY <1>1, <1>3, ChildrenType DEF Properties, Parents, p
<1> HIDE DEF fourth, q
<1>5. /\ Unbroken(c) /\ Unbroken(m) /\ Unbroken(p) /\ Unbroken(q)
      /\ Len(c) + Len(m) + Len(p) + Len(q) <= MaxBoxesVisited
      /\ \A b \in pitm : b.whole
  BY DEF Sound, m, p, q
<1>6. /\ Len(c) \in Nat /\ Len(m) \in Nat /\ Len(p) \in Nat /\ Len(q) \in Nat
      /\ Len(c) <= MaxBoxesVisited
      /\ MaxBoxesVisited - Len(c) \in Nat /\ Len(m) <= MaxBoxesVisited - Len(c)
      /\ budget \in Nat /\ Len(p) <= budget
      /\ budget - Len(p) \in Nat /\ Len(q) <= budget - Len(p)
  <2>1. Len(c) \in Nat /\ Len(m) \in Nat /\ Len(p) \in Nat /\ Len(q) \in Nat
    BY <1>1, <1>2, <1>3, <1>4
  <2> QED
    BY <2>1, <1>5, AvifMetaAssumption
<1>7. Parse(c).orientation = IF turned.orientation = {} THEN NoTransforms
                             ELSE The(turned.orientation)
  <2>1. walk_boxes(c, MaxBoxesVisited) = c
    BY <1>1, <1>5, <1>6, AvifMetaAssumption, WalkIs
  <2> DEFINE meta == FirstBox(c, "meta")
             children == IF meta = {} THEN <<>>
                         ELSE walk_boxes(The(meta).boxes, MaxBoxesVisited - Len(c))
  <2>2. m = IF meta = {} THEN <<>> ELSE The(meta).boxes
    BY DEF m, MetaBoxes, Children
  <2> HIDE DEF meta
  <2>3. children = m
    <3>1. walk_boxes(m, MaxBoxesVisited - Len(c)) = m
      BY <1>2, <1>5, <1>6, WalkIs
    <3> QED
      BY <2>2, <3>1
  <2>4. Parse(c).orientation =
          LET resolved == resolve_orientation(FirstBox(children, "pitm"),
                                              FirstBox(children, "iprp"),
                                              MaxBoxesVisited - Len(c) - Len(children))
          IN  IF resolved.orientation = {} THEN NoTransforms ELSE The(resolved.orientation)
    BY <2>1 DEF Parse, meta
  <2> HIDE DEF children
  <2> QED
    BY <2>3, <2>4
<1> HIDE DEF budget
<1>8. /\ \A b \in iprp : b \in second /\ b.type = "iprp"
      /\ IsOption(pitm)
      /\ p = IF iprp = {} THEN <<>> ELSE The(iprp).boxes
      /\ q = IF ipco = {} THEN <<>> ELSE The(ipco).boxes
  BY <1>2, FirstBoxIs DEF p, q, m, PropertyBoxes, Properties, Children
<1> DEFINE entries == UNION {EntryOf(ipma.entries, one.item) :
                                ipma \in FirstBox(p, "ipma"), one \in pitm}
<1>9. pp = IF entries = {} THEN <<>> ELSE The(entries).indices
  BY DEF PrimaryProperties, p, pitm, m
<1>10. \A i \in DOMAIN collect_properties(q) : collect_properties(q)[i] \in Transforms
  BY <1>1, <1>4, CollectedType
<1> HIDE DEF pp, iprp, pitm, ipco
<1>11. \A item : LET es == UNION {EntryOf(b.entries, item) : b \in FirstBox(p, "ipma")}
                     is == UNION {parse_primary_item_associations(b, item) :
                                     b \in FirstBox(p, "ipma")}
                 IN  /\ is = {e.indices : e \in es}
                     /\ IsOption(es)
                     /\ \A e \in es : IsSequence(e.indices)
  BY <1>1, <1>3, PrimaryIs
<1>12. IsSequence(pp)
  <2>1. CASE entries = {}
    <3>1. IsSequence(<<>>)
      BY DEF IsSequence
    <3> QED
      BY <1>9, <2>1, <3>1
  <2>2. CASE entries # {}
    <3>1. ASSUME NEW e \in entries PROVE IsSequence(e.indices)
      <4>1. PICK one \in pitm, ipma \in FirstBox(p, "ipma") : e \in EntryOf(ipma.entries, one.item)
        OBVIOUS
      <4> HIDE DEF entries
      <4> DEFINE es == UNION {EntryOf(b.entries, one.item) : b \in FirstBox(p, "ipma")}
      <4>2. e \in es
        BY <4>1
      <4>3. \A x \in es : IsSequence(x.indices)
        BY <1>11
      <4> HIDE DEF es
      <4> QED
        BY <4>2, <4>3
    <3> HIDE DEF entries
    <3>3. IsSequence(The(entries).indices)
      BY <2>2, <3>1, TheIs
    <3> QED
      BY <1>9, <2>2, <3>3
  <2> QED
    BY <2>1, <2>2
<1>13. ASSUME DOMAIN collect_properties(q) = {} \/ pp = <<>>
       PROVE  IntoOrientation(Composed(collect_properties(q), pp)) = NoTransforms
  <2>1. pp \in Seq(Range(pp)) /\ (pp = <<>> => Len(pp) = 0)
    BY <1>12 DEF IsSequence
  <2>2. Composed(collect_properties(q), pp) = Rotation(0)
    BY <1>10, <1>13, <2>1, ComposedNothing
  <2>3. IntoOrientation(Rotation(0)) = NoTransforms
    BY DEF IntoOrientation, Rotation, NoTransforms
  <2> QED
    BY <2>2, <2>3
<1>14. Parse(c).orientation = IntoOrientation(Composed(collect_properties(q), pp))
  <2>1. CASE iprp = {} \/ parse_primary_item_id(pitm) = {}
    <3>1. turned.orientation = {}
      BY <2>1 DEF resolve_orientation
    <3>2. entries = {}
      <4>1. CASE iprp = {}
        <5>1. p = <<>>
          BY <1>8, <4>1
        <5>2. FirstBox(p, "ipma") = {}
          BY <5>1, FirstOfNone
        <5> QED
          BY <5>2
      <4>2. CASE parse_primary_item_id(pitm) = {}
        <5>1. pitm = {}
          BY <1>5, <4>2 DEF parse_primary_item_id
        <5> QED
          BY <5>1
      <4> QED
        BY <2>1, <4>1, <4>2
    <3>3. pp = <<>>
      BY <1>9, <3>2
    <3> QED
      BY <1>7, <1>13, <3>1, <3>3
  <2>2. CASE ~(iprp = {} \/ parse_primary_item_id(pitm) = {})
    <3>1. PICK one \in pitm : TRUE
      BY <2>2 DEF parse_primary_item_id
    <3>2. pitm = {one} /\ parse_primary_item_id(pitm) = {one.item}
      BY <1>5, <1>8, <3>1 DEF parse_primary_item_id, IsOption
    <3> DEFINE item == one.item
               es == UNION {EntryOf(b.entries, item) : b \in FirstBox(p, "ipma")}
               is == UNION {parse_primary_item_associations(b, item) : b \in FirstBox(p, "ipma")}
               oriented == {IntoOrientation(Composed(collect_properties(q), i)) : i \in is}
    <3>3. The(parse_primary_item_id(pitm)) = item
      BY <3>2 DEF The
    <3>4. entries = es
      BY <3>2
    <3>5. is = {e.indices : e \in es} /\ IsOption(es)
      BY <1>11
    <3>6. The(iprp).boxes = p
      BY <1>8, <2>2
    <3>7. walk_boxes(p, budget) = p
      BY <1>3, <1>5, <1>6, WalkIs
    <3>8. turned.orientation = IF ipco = {} THEN {} ELSE oriented
      <4>1. ipco # {} => walk_boxes(The(ipco).boxes, budget - Len(p)) = q
        <5>1. walk_boxes(q, budget - Len(p)) = q
          BY <1>4, <1>5, <1>6, WalkIs
        <5> QED
          BY <1>8, <5>1
      <4> QED
        BY <2>2, <3>3, <3>6, <3>7, <4>1 DEF resolve_orientation, ipco
    <3> HIDE DEF turned
    <3>9. CASE ipco = {}
      <4>1. DOMAIN collect_properties(q) = {}
        BY <1>8, <3>9 DEF collect_properties
      <4> QED
        BY <1>7, <1>13, <3>8, <3>9, <4>1
    <3>e. is = {} => oriented = {}
      OBVIOUS
    <3> HIDE DEF is, es, entries
    <3>10. CASE ipco # {} /\ es = {}
      <4>1. oriented = {} /\ pp = <<>>
        BY <1>9, <3>4, <3>5, <3>10, <3>e
      <4> QED
        BY <1>7, <1>13, <3>8, <3>10, <4>1
    <3>11. CASE ipco # {} /\ es # {}
      <4>1. PICK e \in es : TRUE
        BY <3>11
      <4>2. es = {e}
        BY <3>5, <4>1 DEF IsOption
      <4>3. pp = e.indices /\ is = {e.indices}
        BY <1>9, <3>4, <3>5, <4>2 DEF The
      <4>4. oriented = {IntoOrientation(Composed(collect_properties(q), pp))}
        BY <4>3
      <4> HIDE DEF oriented
      <4>5. The(turned.orientation) = IntoOrientation(Composed(collect_properties(q), pp))
        BY <3>8, <3>11, <4>4 DEF The
      <4> QED
        BY <1>7, <3>8, <3>11, <4>4, <4>5
    <3> QED
      BY <3>9, <3>10, <3>11
  <2> QED
    BY <2>1, <2>2
<1>15. \E S : (\A b \in S : IsBox(b)) /\ q \in Seq(S)
  BY <1>1, <1>4
<1> QED
  BY <1>12, <1>14, <1>15 DEF q, pp

\* What a viewer shows of a container read whole is the file's pixels turned the
\* way parse says.
LEMMA SoundView ==
    ASSUME NEW c, IsContainer(c), Sound(c)
    PROVE  Viewed(Properties(c), PrimaryProperties(c)) =
              ApplyOrientation(AsStored, Parse(c).orientation)
<1> DEFINE q == Properties(c)
           pp == PrimaryProperties(c)
           t == Composed(collect_properties(q), pp)
<1>1. /\ \E S : (\A b \in S : IsBox(b)) /\ q \in Seq(S)
      /\ IsSequence(pp)
      /\ Parse(c).orientation = IntoOrientation(t)
  BY SoundParse
<1>2. PICK S : (\A b \in S : IsBox(b)) /\ q \in Seq(S)
  BY <1>1
<1>3. pp \in Seq(Range(pp))
  BY <1>1 DEF IsSequence
<1> HIDE DEF q, pp
<1>4. t \in Transforms /\ Viewed(q, pp) = Seen(t)
  BY <1>2, <1>3, ViewedIsComposed
<1> HIDE DEF t
<1>5. ApplyOrientation(AsStored, IntoOrientation(t)) = Seen(t)
  BY <1>4, SeenOriented
<1> QED
  BY <1>1, <1>4, <1>5 DEF q, pp

-----------------------------------------------------------------------------
(* What a viewer shows of the result. *)

\* Where a still image's orientation comes from: the container of an AVIF, which
\* is turned as a viewer turns it when it can be read whole, and the EXIF tag of
\* any other.
LEMMA SourceRighted ==
    ASSUME IsSource(source), source.kind = "avif" => Sound(source.container)
    PROVE  SourceView(source) = Righted
<1>1. CASE source.kind = "avif"
  <2>1. Read.orientation = Parse(source.container).orientation
    BY <1>1 DEF Read, Decoded, avif_decode
  <2>2. SourceView(source) =
            Viewed(Properties(source.container), PrimaryProperties(source.container))
    BY <1>1 DEF SourceView
  <2>3. IsContainer(source.container)
    BY DEF IsSource
  <2> QED
    BY <1>1, <2>1, <2>2, <2>3, SoundView DEF Righted
<1>2. CASE source.kind # "avif"
  <2>1. Read.orientation = TagOrientation(source)
    BY <1>2 DEF Read, Decoded, decode_jpeg_scaled, decode_webp, decode_with_image_crate
  <2> QED
    BY <1>2, <2>1 DEF SourceView, Righted
<1> QED
  BY <1>1, <1>2

\* The tag that goes on with an upright image asks for no further turn: it was
\* neutralised, or never asked for one.
LEMMA TagsSettled ==
    ASSUME IsSource(source), Uprighted, applied \in BOOLEAN, request.strip \in BOOLEAN,
           MisleadingTag => request.strip
    PROVE  LET tags == UNION {e.tag : e \in Kept}
           IN  tags # {} => The(tags) = NoTransforms
<1> DEFINE tags == UNION {e.tag : e \in Kept}
<1>1. CASE request.strip
  <2>1. Kept = {}
    BY <1>1 DEF Kept, ForwardedExif
  <2> QED
    BY <2>1
<1>2. CASE ~request.strip /\ applied
  <2>1. Kept = UNION {neutralize_exif_orientation(e) : e \in Read.exif}
    BY <1>2 DEF Kept, ForwardedExif
  <2>2. \A e \in Read.exif :
            \A k \in neutralize_exif_orientation(e) : k.tag \subseteq {NoTransforms}
    <3> SUFFICES ASSUME NEW e \in Read.exif, NEW k \in neutralize_exif_orientation(e)
                 PROVE  k.tag \subseteq {NoTransforms}
      OBVIOUS
    <3>1. k = [e EXCEPT !.tag = {NoTransforms}]
      BY DEF neutralize_exif_orientation
    <3>2. e \in Exifs
      BY DecodedType DEF Read
    <3> QED
      BY <3>1, <3>2 DEF Exifs
  <2>3. tags \subseteq {NoTransforms}
    BY <2>1, <2>2
  <2> HIDE DEF tags
  <2>4. tags # {} => The(tags) = NoTransforms
    BY <2>3, TheIs
  <2> QED
    BY <2>4 DEF tags
<1>3. CASE ~request.strip /\ ~applied
  <2>1. Kept = Read.exif /\ Read.orientation = NoTransforms
    BY <1>3 DEF Kept, ForwardedExif, Uprighted
  <2>2. CASE source.kind = "avif"
    <3>1. /\ Read.orientation = Parse(source.container).orientation
          /\ Read.exif = Parse(source.container).exif
      BY <2>2 DEF Read, Decoded, avif_decode
    <3>2. \A e \in Read.exif : e.tag \in {{}, {NoTransforms}}
      BY <1>3, <2>1, <2>2, <3>1 DEF MisleadingTag
    <3>3. tags \subseteq {NoTransforms}
      BY <2>1, <3>2
    <3> HIDE DEF tags
    <3>4. tags # {} => The(tags) = NoTransforms
      BY <3>3, TheIs
    <3> QED
      BY <3>4 DEF tags
  <2>3. CASE source.kind # "avif"
    <3>1. Read.orientation = TagOrientation(source) /\ Read.exif = source.exif
      BY <1>3, <2>3 DEF Read, Decoded, decode_jpeg_scaled, decode_webp, decode_with_image_crate
    <3>2. tags = UNION {e.tag : e \in source.exif}
      BY <2>1, <3>1
    <3> QED
      BY <2>1, <3>1, <3>2 DEF TagOrientation
  <2> QED
    BY <2>2, <2>3
<1> QED
  BY <1>1, <1>2, <1>3

\* A finished still image is shown as its source is, then turned as asked.
LEMMA ShownImplies ==
    ASSUME RTypeOK, MetaInv, ViewInv
    PROVE  ShownAsSource
<1> SUFFICES ASSUME stage = "done", request.autorotate, ~Animation,
                    source.kind = "avif" => Sound(source.container),
                    MisleadingTag => request.strip
             PROVE  ResultView = Flipped(request, Rotated(request, SourceView(source)))
  BY Zenon DEF ShownAsSource
<1>1. applied \in BOOLEAN /\ IsRequest(request) /\ IsSource(source)
  BY DEF RTypeOK, TypeOK
<1>2. request.strip \in BOOLEAN
  BY <1>1 DEF IsRequest, RequestType
<1>3. view = Flipped(request, Rotated(request, Righted)) /\ Uprighted
  BY DEF ViewInv
<1>4. request.format \in {"jpeg", "png", "webp"} => exif = Kept
  BY DEF MetaInv, WrittenOut
<1>5. SourceView(source) = Righted
  BY <1>1, SourceRighted
<1>6. ResultView = view
  <2> DEFINE tags == UNION {e.tag : e \in exif}
  <2>1. ResultView = IF request.format \in {"jpeg", "png", "webp"} /\ tags # {}
                     THEN ApplyOrientation(view, The(tags)) ELSE view
    BY DEF ResultView
  <2>2. request.format \in {"jpeg", "png", "webp"} /\ tags # {} => The(tags) = NoTransforms
    BY <1>1, <1>2, <1>3, <1>4, TagsSettled
  <2>3. ApplyOrientation(view, NoTransforms) = view
    BY DEF ApplyOrientation, NoTransforms, Turned
  <2> HIDE DEF tags
  <2> QED
    BY <2>1, <2>2, <2>3
<1> QED
  BY <1>3, <1>5, <1>6

-----------------------------------------------------------------------------
(* Theorems about the rendering. *)

\* What the properties of the rendering need of every state.
RenderInv == RTypeOK /\ BoxIsFinal /\ MetaInv /\ ViewInv

\* Along process_image_blocking the metadata in hand is what the decoder read,
\* then what encode_single_image forwards of it; with autorotate the pixels are
\* as stored, then upright, then as asked; colours are hidden only by transparency.
THEOREM RenderInvariant == RSpec => []RenderInv
<1>1. RInit => RenderInv
  <2>1. RInit => BoxIsFinal
    BY DEF RInit, Init, BoxIsFinal
  <2> QED
    BY <2>1, RTypeInit, MetaInit, ViewInit DEF RenderInv
<1>2. RenderInv /\ [RNext]_rvars => RenderInv'
  <2> SUFFICES ASSUME RTypeOK, BoxIsFinal, MetaInv, ViewInv, [RNext]_rvars PROVE RenderInv'
    BY DEF RenderInv
  <2>1. TypeOK /\ [Next]_vars
    BY RenderStep, RTypeIs
  <2>2. BoxIsFinal'
    BY <2>1, BoxStep
  <2>3. RTypeOK' /\ MetaInv' /\ ViewInv'
    BY RTypeStep, MetaStep, ViewStep
  <2> QED
    BY <2>2, <2>3 DEF RenderInv
<1> QED
  BY <1>1, <1>2, PTL DEF RSpec

\* The state of a job has its type, and the final image fits the box asked for,
\* whichever way resize_and_filter turns it.
THEOREM RenderSizes == RSpec => []GeometryInv
<1>1. RenderInv => GeometryInv
  BY DEF RenderInv, GeometryInv
<1> QED
  BY <1>1, RenderInvariant, PTL

\* apply_crop cuts out the size asked for wherever the gravity puts it, and
\* apply_watermark draws the whole of a watermark that fits the image.
THEOREM ClipsNothing == RSpec => NothingClipped
<1> DEFINE A ==
       /\ stage = "crop" /\ request.crops =>
              \A i \in Axes : img'[i] = CropLength(request.crop[i], img[i])
       /\ stage = "watermark" /\ stage' = "encode" =>
              \A wm \in request.watermark, overlay \in request.overlay :
                 LET asked == WatermarkSize(wm, overlay, img)
                 IN  wm.offset = <<0, 0>> /\ Within(asked, img) => mark' = {asked}
<1>1. RenderInv /\ [RNext]_rvars => [A]_rvars
  BY ClippedStep DEF RenderInv
<1>2. NothingClipped <=> [][A]_rvars
  BY DEF NothingClipped
<1> QED
  BY <1>1, <1>2, RenderInvariant, PTL DEF RSpec

\* encode_single_image and the encoders leave no EXIF with strip_metadata, lose
\* none without it that a format can hold, keep the profile where both ends can,
\* and leave no colour under a transparent pixel.
THEOREM MetadataKept == RSpec => []MetadataAsAsked
<1>1. RenderInv => MetadataAsAsked
  BY MetaImplies DEF RenderInv
<1> QED
  BY <1>1, RenderInvariant, PTL

\* With autorotate the result is shown as the source is and then turned as asked,
\* never twice: for any AVIF container that parse reads whole, with any properties
\* in any order, the transforms it composes are those a viewer applies one by one.
THEOREM ShownUpright == RSpec => []ShownAsSource
<1>1. RenderInv => ShownAsSource
  BY ShownImplies DEF RenderInv
<1> QED
  BY <1>1, RenderInvariant, PTL

=============================================================================
