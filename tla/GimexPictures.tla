--------------------------- MODULE GimexPictures ----------------------------
(***************************************************************************)
(* What Targa files and bitmaps say of a picture (src/gimex/src): headers, *)
(* palettes, the depth and the order of pixels; and pictures that are read *)
(* from a file, written to one of any format, and read again.  How rows    *)
(* are packed is in TgaRows and BmpRows; here a row is packed or it is     *)
(* not.  A word is the set of its bits that are 1.                         *)
(***************************************************************************)
EXTENDS PngPictures, JpegPictures

CONSTANTS
  Files,       \* made by other programs: sets of files, by the kind of their pixels
  MaxWrites    \* bound on how often a picture is written

VARIABLES
  picStep,     \* "file", "info", "read"
  stored,      \* the file
  info,        \* GINFO
  pixels,      \* the picture, its top row first
  whole,       \* history: every row of the file has been read
  earlier,     \* history: the info and the pixels that were written
  writes       \* history: how often something was written

picVars == <<picStep, stored, info, pixels, whole, earlier, writes>>

-----------------------------------------------------------------------------
(* Reading a Targa.                                                        *)

Widened(bits, value) == (255 * value) \div (2 ^ bits - 1)

FromFive(c) == <<Widened(5, c[1]), Widened(5, c[2]), Widened(5, c[3]), Widened(1, c[4])>>

TgaColour(depth, alpha, c) ==
  CASE depth \in {15, 16} -> IF alpha THEN FromFive(c) ELSE Opaque(FromFive(c))
    [] depth = 24         -> Opaque(c)
    [] depth = 32         -> c

(* A grey picture has as many greys as the header says it has colours.     *)
TGA_colortbl(f) ==
  [index \in f.cmap_start .. f.cmap_start + f.cmap_length - 1 |->
     LET i == index - f.cmap_start
     IN  IF f.cmap_type = 0 THEN Grey(i)
         ELSE TgaColour(f.cmap_depth, f.attributes = 1, f.palette[i + 1])]

(* The alpha bit of 15 and 16 bits is looked at and then taken back.       *)
TGA_info(f) ==
  LET paletted == f.pixel_depth = 8
      depth    == IF paletted /\ f.cmap_type = 1 THEN f.cmap_depth ELSE f.pixel_depth
      bits     == IF depth \in {15, 16} THEN 5 ELSE 8
  IN  [bpp |-> IF paletted THEN 8 ELSE 32,
       original_bpp |-> IF f.pixel_depth = 16 THEN 15 ELSE f.pixel_depth,
       num_colors |-> IF ~paletted THEN 0 ELSE IF f.cmap_type = 0 THEN 256 ELSE f.cmap_length,
       palette_start_index |-> IF paletted THEN f.cmap_start ELSE 0,
       colortbl |-> IF paletted THEN TGA_colortbl(f) ELSE <<>>,
       sub_type |-> "none", packed |-> f.packed,
       alpha_bits |-> IF depth = 32 THEN 8 ELSE 0,
       red_bits |-> bits, green_bits |-> bits, blue_bits |-> bits,
       default_x |-> IF f.right THEN - f.x_offset ELSE f.x_offset,
       default_y |-> IF f.top THEN f.y_offset ELSE - f.y_offset]

(* Every pixel but of 32 bits is taken for one byte.                       *)
TGA_flipline(row, bpp) ==
  LET width   == Len(row)
      byte(k) == row[(k \div 4) + 1][(k % 4) + 1]
      flipped(k) == byte(IF k < width THEN width - 1 - k ELSE k)
  IN  IF bpp \in {8, 32} THEN Reverse(row)
      ELSE [x \in 1 .. width |-> [c \in 1 .. 4 |-> flipped(4 * (x - 1) + c - 1)]]

TGA_read(f, i) ==
  LET read  == IF i.original_bpp = 8 THEN f.rows
               ELSE Each(f.rows, LAMBDA c : TgaColour(i.original_bpp, i.alpha_bits # 0, c))
      lines == [y \in DOMAIN read |->
                  IF f.right THEN TGA_flipline(read[y], i.original_bpp) ELSE read[y]]
  IN  IF f.top THEN lines ELSE Reverse(lines)

-----------------------------------------------------------------------------
(* Writing a Targa.                                                        *)

FewBits(i) == i.alpha_bits <= 1 /\ i.red_bits <= 5 /\ i.green_bits <= 5 /\ i.blue_bits <= 5

TgaDepth(i) ==
  CASE i.original_bpp <= 8 -> 8
    [] i.original_bpp > 8 /\ FewBits(i) -> 16
    [] OTHER -> IF i.alpha_bits # 0 THEN 32 ELSE 24

IsGrey(c) == c = Grey(c[3])

GreyScale(i) == i.original_bpp <= 8 /\ \A n \in 0 .. i.num_colors - 1 : IsGrey(Colour(i, n))

(* grey_buff is filled for as many indices as there are colours.           *)
grey_buff(i, index) ==
  IF index >= i.num_colors THEN NoIndex
  ELSE IF GreyScale(i) THEN Colour(i, index)[3] ELSE index

ToFive(c, alpha) == <<c[1] \div 8, c[2] \div 8, c[3] \div 8, alpha>>

(* Mutant of PalBuff: the palette is written from its first entry.         *)
PalBuffFromFirst(i) == [n \in 1 .. i.num_colors |-> Colour(i, n - 1)]

(* A palette of 16 bits has the top bit of red for its alpha.              *)
PalBuff(i) ==
  [n \in 1 .. i.num_colors |->
     LET c == Colour(i, i.palette_start_index + n - 1)
     IN  IF FewBits(i) THEN ToFive(c, IF i.alpha_bits # 0 THEN c[3] \div 128 ELSE 1) ELSE c]

TGA_writeline(i, p) ==
  CASE TgaDepth(i) = 8  -> grey_buff(i, p)
    [] TgaDepth(i) = 16 -> ToFive(p, IF i.alpha_bits # 0 THEN p[4] \div 128 ELSE 1)
    [] OTHER            -> p

RightFlag(i) == TgaDepth(i) # 24 /\ (i.alpha_bits \div 16) % 2 = 1

(* Offsets are written as words of 16 bits, y with its sign changed.  The  *)
(* descriptor is the number of alpha bits: 16 of them say that the columns *)
(* begin at the right.                                                     *)
TGA_write(i, rows) ==
  LET mapped == i.num_colors # 0 /\ ~GreyScale(i)
  IN  [codec |-> "TGA", packed |-> i.packed,
       cmap_type |-> IF mapped THEN 1 ELSE 0,
       cmap_start |-> i.palette_start_index, cmap_length |-> i.num_colors,
       cmap_depth |-> IF mapped /\ FewBits(i) THEN 16
                      ELSE IF mapped /\ i.alpha_bits # 8 THEN 24 ELSE 32,
       palette |-> IF mapped THEN PalBuff(i) ELSE <<>>,
       x_offset |-> i.default_x % 65536, y_offset |-> (- i.default_y) % 65536,
       pixel_depth |-> TgaDepth(i), top |-> FALSE, right |-> RightFlag(i),
       attributes |-> IF TgaDepth(i) = 24 THEN 0 ELSE i.alpha_bits % 16,
       rows |-> Reverse(Each(rows, LAMBDA p : TGA_writeline(i, p)))]

-----------------------------------------------------------------------------
(* Reading a bitmap.                                                       *)

BitsAt(value, offset) == {offset + k : k \in {j \in 0 .. 7 : (value \div (2 ^ j)) % 2 = 1}}

FieldOf(w, mask) == MapThenSumSet(LAMBDA k : 2 ^ (k - Min(mask)), w \cap mask)

(* Masks of the bits of a colour, blue lowest.                             *)
Stacked(b) ==
  [b |-> 0 .. b.b - 1, g |-> b.b .. b.b + b.g - 1, r |-> b.b + b.g .. b.b + b.g + b.r - 1,
   a |-> b.b + b.g + b.r .. b.b + b.g + b.r + b.a - 1]

BitsOf(a, r, g, b) == [a |-> a, r |-> r, g |-> g, b |-> b]

HasMasks(f) == f.type \in {"INFOEX", "V4"}

AlphaBits(f) ==
  IF f.bit_count <= 8
    THEN LET alphas == {f.palette[n][4] : n \in DOMAIN f.palette}
         IN  IF alphas \in {{0}, {255}} THEN 0 ELSE 8
  ELSE IF f.bit_count = 32 /\ f.type = "V4" THEN Cardinality(f.masks.a) ELSE 0

BMP_info(f) ==
  LET five   == f.bit_count = 16 /\ ~HasMasks(f)
      Own(c) == IF five THEN 5
                ELSE IF f.bit_count > 8 /\ HasMasks(f) THEN Cardinality(f.masks[c]) ELSE 8
      opaque == \A n \in DOMAIN f.palette : f.palette[n][4] = 0
  IN  [bpp |-> IF f.bit_count <= 8 THEN 8 ELSE 32,
       original_bpp |-> IF five THEN 15 ELSE f.bit_count,
       num_colors |-> Len(f.palette), palette_start_index |-> 0,
       colortbl |-> [n \in 0 .. Len(f.palette) - 1 |->
                       IF opaque THEN Opaque(f.palette[n + 1]) ELSE f.palette[n + 1]],
       sub_type |-> f.type, packed |-> f.compressed,
       alpha_bits |-> AlphaBits(f),
       red_bits |-> Own("r"), green_bits |-> Own("g"), blue_bits |-> Own("b"),
       default_x |-> 0, default_y |-> 0]

Scaled8(value, bits) == (value * 255 + ((2 ^ bits) \div 2)) \div (2 ^ bits - 1)

BmpColour(w, masks, i) ==
  <<Scaled8(FieldOf(w, masks.b), i.blue_bits), Scaled8(FieldOf(w, masks.g), i.green_bits),
    Scaled8(FieldOf(w, masks.r), i.red_bits),
    IF masks.a = {} THEN 255 ELSE Scaled8(FieldOf(w, masks.a), i.alpha_bits)>>

(* Rows that are packed and read as they are are garbage, and so are those *)
(* whose writer took indices for colours.                                  *)
Unreadable(f) == f.form # IF f.compressed THEN "packed" ELSE "plain"

(* What is in the buffer before.                                           *)
Unset(i) == IF i.bpp = 8 THEN NoIndex ELSE Garbage

(* Of 15 bits every second pixel is taken, up to the end of the row and as *)
(* many behind it.                                                         *)
BMP_readline(f, i, row) ==
  LET own   == Stacked(BitsOf(0, i.red_bits, i.green_bits, i.blue_bits))
      masks == IF ~HasMasks(f) THEN own
               ELSE IF f.bit_count = 32 /\ f.type = "V4" THEN f.masks ELSE [f.masks EXCEPT !.a = {}]
      from(x) == IF i.original_bpp = 15 THEN 2 * x - 1 ELSE x
  IN  [x \in DOMAIN row |->
         CASE Unreadable(f)        -> Unset(i)
           [] i.original_bpp <= 8  -> row[x]
           [] i.original_bpp = 24  -> Opaque(row[x])
           [] OTHER -> IF from(x) \in DOMAIN row THEN BmpColour(row[from(x)], masks, i)
                       ELSE Garbage]

(* A packed row in which nothing but runs was met tells of no success, and *)
(* no row behind it is read.  How a row was packed is left open here (see  *)
(* BmpRows): any row may be the last one.                                  *)
RowsRead(f) == IF f.codec = "BMP" /\ f.compressed THEN DOMAIN f.rows ELSE {Len(f.rows)}

BmpLines(f, i, count) ==
  [y \in DOMAIN f.rows |->
     IF y <= count THEN BMP_readline(f, i, f.rows[y]) ELSE [x \in DOMAIN f.rows[y] |-> Unset(i)]]

(* Mutant of BMP_read: the top row is always the last.                     *)
BMP_readUp(f, i, count) == Reverse(BmpLines(f, i, count))

BMP_read(f, i, count) ==
  IF f.down THEN BmpLines(f, i, count) ELSE Reverse(BmpLines(f, i, count))

-----------------------------------------------------------------------------
(* Writing a bitmap.                                                       *)

Rounded(bits) == Min({32} \cup {depth \in {1, 4, 8, 16, 24} : bits <= depth})

BmpDepth(i) ==
  Rounded(IF i.bpp = 8 THEN i.original_bpp
          ELSE i.alpha_bits + i.red_bits + i.green_bits + i.blue_bits)

Eight(a) == BitsOf(a, 8, 8, 8)

(* The depth, the bits of a colour and the masks, by the kind of header    *)
(* that the picture has had; that of a JPEG stands for none.               *)
Basic(i) == i.sub_type \notin {"V4", "INFOEX"}

BmpLayout(i) ==
  LET depth   == BmpDepth(i)
      own     == BitsOf(i.alpha_bits, i.red_bits, i.green_bits, i.blue_bits)
      few     == IF i.green_bits <= 5 THEN BitsOf(1, 5, 5, 5) ELSE BitsOf(0, 5, 6, 5)
      Layout(d, bits) == [depth |-> d, bits |-> bits, masks |-> Stacked(bits)]
  IN  CASE i.sub_type = "V4" /\ i.alpha_bits # 0 /\ depth >= 8 -> Layout(32, Eight(8))
        [] i.sub_type = "V4" /\ i.alpha_bits = 0 /\ depth = 16 ->
             [Layout(16, few) EXCEPT !.masks.a = {}]
        [] i.sub_type = "V4" /\ i.alpha_bits = 0 /\ depth = 24 -> Layout(24, Eight(0))
        [] i.sub_type = "INFO" /\ depth = 16 -> Layout(16, BitsOf(0, 5, 6, 5))
        [] Basic(i) /\ i.sub_type # "INFO" /\ depth = 16 -> Layout(16, BitsOf(1, 5, 5, 5))
        [] Basic(i) /\ depth = 32 -> Layout(32, Eight(8))
        [] OTHER -> Layout(depth, own)

Narrowed(bits, value) == (value * (2 ^ bits - 1) + 128) \div 255

(* The bits of a colour are put at the top of a word of 32 bits.           *)
PackedAtTop(c, bits) ==
  LET a == 32 - bits.a
      r == a - bits.r
      g == r - bits.g
  IN  (BitsAt(Narrowed(bits.a, c[4]), a) \cup BitsAt(Narrowed(bits.r, c[3]), r)
         \cup BitsAt(Narrowed(bits.g, c[2]), g) \cup BitsAt(Narrowed(bits.b, c[1]), g - bits.b)) \cap 0 .. 31

(* A pixel of 16 bits is the low half of that word.                        *)
BMP_writeline(target, p) ==
  CASE target.depth \in {1, 4, 8} -> p % (2 ^ target.depth)
    [] target.depth = 16 -> PackedAtTop(p, target.bits) \cap 0 .. 15
    [] target.depth = 24 -> p
    [] target.depth = 32 -> PackedAtTop(p, target.bits)

(* A palette of which the picture has no alpha is written opaque; to 32    *)
(* bits a row of indices is written as one of colours, without a palette.  *)
BMP_write(i, rows) ==
  LET target     == BmpLayout(i)
      mixed      == i.bpp = 8 /\ target.depth = 32
      palette(n) == IF i.alpha_bits # 0 THEN Colour(i, n - 1) ELSE Opaque(Colour(i, n - 1))
  IN  [codec |-> "BMP", type |-> IF Basic(i) THEN "INFO" ELSE i.sub_type,
       bit_count |-> target.depth, down |-> FALSE, masks |-> target.masks,
       compressed |-> i.packed /\ target.depth = 8 /\ Basic(i),
       form |-> IF mixed THEN "mixed" ELSE IF i.packed THEN "packed" ELSE "plain",
       palette |-> IF target.depth <= 8 THEN [n \in 1 .. i.num_colors |-> palette(n)] ELSE <<>>,
       rows |-> Reverse(IF mixed THEN rows ELSE Each(rows, LAMBDA p : BMP_writeline(target, p)))]

-----------------------------------------------------------------------------
(* One picture, converted as often as a program asks for it.               *)
PicInit ==
  /\ picStep = "file" /\ \E kind \in DOMAIN Files : stored \in Files[kind]
  /\ info = <<>> /\ pixels = <<>> /\ whole = TRUE /\ earlier = <<>> /\ writes = 0

GIMEX_info ==
  /\ picStep = "file" /\ picStep' = "info"
  /\ info' = CASE stored.codec = "TGA" -> TGA_info(stored)
               [] stored.codec = "BMP" -> BMP_info(stored)
               [] stored.codec = "PNG" -> PNG_info(stored)
               [] stored.codec = "JPG" -> JPG_info(stored)
  /\ UNCHANGED <<stored, pixels, whole, earlier, writes>>

GIMEX_read ==
  /\ picStep = "info" /\ picStep' = "read"
  /\ \E count \in RowsRead(stored) :
       /\ pixels' = CASE stored.codec = "TGA" -> TGA_read(stored, info)
                      [] stored.codec = "BMP" -> BMP_read(stored, info, count)
                      [] stored.codec = "PNG" -> PNG_read(stored, info)
                      [] stored.codec = "JPG" -> JPG_read(stored)
       /\ whole' = (count = Len(stored.rows))
  /\ UNCHANGED <<stored, info, earlier, writes>>

HasGarbage(i, rows) == Garbage \in Values(Shown(i, rows))

(* gimexconv asks for plain rows and no kind of header; another program    *)
(* may leave the info as it is.  What is made of garbage is not followed.  *)
GIMEX_write(codec, plain) ==
  LET asked == IF plain THEN [info EXCEPT !.sub_type = "none", !.packed = FALSE] ELSE info
  IN  /\ picStep = "read" /\ picStep' = "file"
      /\ writes < MaxWrites /\ ~HasGarbage(info, pixels)
      /\ \/ codec = "TGA" /\ stored' = TGA_write(asked, pixels)
         \/ codec = "BMP" /\ stored' = BMP_write(asked, pixels)
         \/ codec = "PNG" /\ \E trans \in TransCounts(asked) : stored' = PNG_write(asked, pixels, trans)
         \/ codec = "JPG" /\ stored' = JPG_write(asked, pixels)
      /\ earlier' = [info |-> asked, pixels |-> pixels]
      /\ writes' = writes + 1
      /\ UNCHANGED <<info, pixels, whole>>

PicNext ==
  \/ GIMEX_info
  \/ GIMEX_read
  \/ \E codec \in {"TGA", "BMP", "PNG", "JPG"}, plain \in BOOLEAN : GIMEX_write(codec, plain)

-----------------------------------------------------------------------------
(* The picture has the size of the file's, and its pixels are of the kind  *)
(* that its info says.                                                     *)
PicTypeOK ==
  /\ picStep \in {"file", "info", "read"}
  /\ writes \in 0 .. MaxWrites /\ whole \in BOOLEAN
  /\ picStep = "read" =>
       /\ Len(pixels) = Len(stored.rows)
       /\ \A y \in DOMAIN pixels : Len(pixels[y]) = Len(stored.rows[y])
       /\ info.bpp < 8 => Values(pixels) = {Garbage}
       /\ info.bpp = 8 => Values(pixels) \subseteq -1 .. 255
       /\ info.bpp = 32 => \A p \in Values(pixels) : p \in [1 .. 4 -> 0 .. 255] \cup {Garbage}

(* What a format means by a value of a pixel; by an index behind the end   *)
(* of the palette, nothing.                                                *)
Meant(f, p) ==
  LET start  == IF f.codec = "TGA" THEN f.cmap_start ELSE 0
      entry  == f.palette[p - start + 1]
      opaque == \A n \in DOMAIN f.palette : f.palette[n][4] = 0
      masks  == IF f.bit_count = 16 \/ f.type # "V4" THEN [f.masks EXCEPT !.a = {}] ELSE f.masks
      own    == Stacked(IF f.bit_count = 16 THEN BitsOf(0, 5, 5, 5) ELSE Eight(0))
  IN  IF f.codec = "PNG" THEN PngMeant(f, p)
      ELSE IF f.codec = "JPG" THEN JpgMeant(f, p)
      ELSE IF f.codec = "TGA" /\ f.pixel_depth > 8
        THEN TgaColour(f.pixel_depth, f.attributes = 1, p)
      ELSE IF f.codec = "TGA" /\ f.cmap_type = 0 THEN Grey(p)
      ELSE IF f.codec = "BMP" /\ f.bit_count = 24 THEN Opaque(p)
      ELSE IF f.codec = "BMP" /\ f.bit_count > 8
        THEN BmpColour(p, IF HasMasks(f) THEN masks ELSE own, BMP_info(f))
      ELSE IF p - start + 1 \notin DOMAIN f.palette THEN Nothing
      ELSE IF f.codec = "TGA" THEN TgaColour(f.cmap_depth, f.attributes = 1, entry)
      ELSE IF opaque THEN Opaque(entry) ELSE entry

(* Where the code reads something else: a Targa of 15 to 24 bits with its  *)
(* columns from the right, a grey beyond the number of colours, an index   *)
(* that was garbage, an alpha bit that is 0; a bitmap of 16 bits without   *)
(* masks that is wider than a pixel, and rows that are not what the header *)
(* says.                                                                   *)
Misread(f) ==
  CASE f.codec = "PNG" -> PngMisread(f)
    [] f.codec = "JPG" -> f.space = "cmyk"
    [] f.codec = "TGA" ->
         \/ f.right /\ f.pixel_depth \in {15, 16, 24}
         \/ f.pixel_depth = 8 /\ f.cmap_type = 0 /\ \E v \in Values(f.rows) : v >= f.cmap_length
         \/ f.pixel_depth = 8 /\ NoIndex \in Values(f.rows)
         \/ f.pixel_depth \in {15, 16} /\ f.attributes = 1 /\ \E c \in Values(f.rows) : c[4] = 0
    [] f.codec = "BMP" ->
         \/ Unreadable(f)
         \/ f.bit_count = 16 /\ ~HasMasks(f) /\ Len(f.rows[1]) > 1

(* BMP_read, TGA_read, PNG_read and JPG_read: a picture is shown as its    *)
(* file means it, every row at its height, every column in its place,      *)
(* every channel by its mask - if it is not misread, and read to its end.  *)
ReadAsStored ==
  picStep = "read" /\ whole /\ ~Misread(stored) =>
    LET meant == Each(stored.rows, LAMBDA p : Meant(stored, p))
        across == IF stored.codec = "TGA" /\ stored.right
                    THEN [y \in DOMAIN meant |-> Reverse(meant[y])] ELSE meant
        fromTop == CASE stored.codec = "TGA" -> stored.top
                     [] stored.codec = "BMP" -> stored.down
                     [] OTHER -> TRUE
    IN  Shown(info, pixels) = IF fromTop THEN across ELSE Reverse(across)

(* What a file of a format keeps of a colour.                              *)
Kept(codec, i, c) ==
  CASE codec = "TGA" /\ FewBits(i) -> Opaque(FromFive(ToFive(c, 1)))
    [] codec = "TGA" /\ ~FewBits(i) -> IF i.alpha_bits # 0 THEN c ELSE Opaque(c)
    [] codec = "BMP" -> IF i.alpha_bits # 0 /\ (i.bpp = 8 \/ i.sub_type = "V4") THEN c ELSE Opaque(c)
    [] codec = "PNG" -> IF i.alpha_bits # 0 THEN c ELSE Opaque(c)
    [] codec = "JPG" -> IF AsksMarker(i) THEN c ELSE Opaque(c)

(* What is lost when it is written.  An index behind the number of colours *)
(* (a bitmap and a palette of a PNG show nothing there).  To a Targa: a    *)
(* grey as high as that number, and the order of the columns if 16 bits of *)
(* alpha say that they begin at the right.                                 *)
SpoiledTarga(i, rows) ==
  \/ i.bpp = 8 /\ \E p \in Values(rows) : p >= i.num_colors
  \/ GreyScale(i) /\ \E p \in Values(rows) : Colour(i, p)[3] >= i.num_colors
  \/ RightFlag(i) /\ \E y \in DOMAIN rows : rows[y] # Reverse(rows[y])

(* To a bitmap: colours of a palette whose alphas are all 0, a palette     *)
(* with alpha behind a V4 header, packed rows but of 8 bits and with a     *)
(* plain header, and every picture of 16 bits that is not black, or is     *)
(* read back with every second pixel.                                      *)
SpoiledBitmap(i, rows) ==
  LET depth == BmpLayout(i).depth
      black == \A c \in Values(Shown(i, rows)) : Opaque(c) = Grey(0)
  IN  \/ i.bpp = 8 /\ \E p \in Values(rows) :
           p >= i.num_colors /\ Kept("BMP", i, Colour(i, p)) # Nothing
      \/ /\ i.bpp = 8 /\ i.alpha_bits # 0
         /\ \/ depth = 32
            \/ /\ \A n \in 0 .. i.num_colors - 1 : Colour(i, n)[4] = 0
               /\ \E p \in Values(rows) : p < i.num_colors
      \/ i.packed /\ ~(depth = 8 /\ Basic(i))
      \/ depth = 16 /\ (~black \/ (Basic(i) /\ Len(rows[1]) > 1))

(* To a PNG, of pictures with a palette: all that have fewer than 8 bits,  *)
(* since they are not read back, all that are grey with alpha, those of    *)
(* greys that are not their own index, and an alpha of a colour behind as  *)
(* many as the count that nobody has set says there are.                   *)
SpoiledPng(i, rows, trans) ==
  /\ i.bpp = 8
  /\ CASE PngType(i) = "palette" ->
            \/ PngDepth(i) < 8
            \/ \E p \in Values(rows) : p >= i.num_colors /\ Kept("PNG", i, Colour(i, p)) # Nothing
            \/ /\ i.alpha_bits # 0
               /\ \E p \in Values(rows) : p \in trans .. i.num_colors - 1 /\ Colour(i, p)[4] # 255
       [] PngType(i) = "grey" ->
            \/ PngDepth(i) < 8
            \/ \E p \in Values(rows) : Opaque(Colour(i, p)) # Grey(p)
       [] PngType(i) = "greyAlpha" -> TRUE

(* To a JPEG without the marker: of a picture of greys, an index behind    *)
(* them of a colour that is not grey.                                      *)
SpoiledJpeg(i, rows) ==
  JpgSpace(i) = "grey" /\ \E p \in Values(rows) : LET c == Opaque(Colour(i, p)) IN c # Grey(c[2])

Spoiled(f, i, rows) ==
  CASE f.codec = "TGA" -> SpoiledTarga(i, rows)
    [] f.codec = "BMP" -> SpoiledBitmap(i, rows)
    [] f.codec = "PNG" -> SpoiledPng(i, rows, f.trans)
    [] f.codec = "JPG" -> SpoiledJpeg(i, rows)

(* A picture that is written and read again is the same but for what its   *)
(* new format keeps of a colour - exactly if it is not spoiled, and its    *)
(* file is read to the end.                                                *)
KeptWhenWritten ==
  picStep = "read" /\ writes > 0 =>
    LET was   == Shown(earlier.info, earlier.pixels)
        keeps == Each(was, LAMBDA c : Kept(stored.codec, earlier.info, c))
    IN  (Shown(info, pixels) = keeps) <=> (whole /\ ~Spoiled(stored, earlier.info, earlier.pixels))

(* A picture's place comes back from a Targa if it is not left of the      *)
(* origin and, since y is written with its sign changed, not below it.     *)
PlaceKept ==
  picStep = "read" /\ writes > 0 /\ stored.codec = "TGA" =>
    /\ (info.default_x = earlier.info.default_x) <=> (earlier.info.default_x >= 0)
    /\ (info.default_y = earlier.info.default_y) <=> (earlier.info.default_y <= 0)

(* The codecs' read and write: what a picture shows, and its place,        *)
(* survive reading, writing and reading again, but for what is named above *)
(* and the rows of a bitmap that are not read.                             *)
PicturesKept == ReadAsStored /\ KeptWhenWritten /\ PlaceKept
=============================================================================
