------------------------------- MODULE PngScan -------------------------------
(***************************************************************************)
(* validate_png (image.rs): the one pass over the chunks of an image, with *)
(* the flags it keeps, against what a well-formed sequence of chunks is.   *)
(*                                                                         *)
(* A chunk is its type and whether it is sound by itself: in the bounds of *)
(* the data, its CRC right, its own length and samples legal.  The colour  *)
(* type is that of the IHDR.  "end" stands for the end of the data.        *)
(***************************************************************************)
EXTENDS Naturals, Sequences

CONSTANT MaxChunks      \* bound on the chunks of an image

Types == {"IHDR", "PLTE", "tRNS", "IDAT", "IEND", "ancillary", "critical"}
Colours == {0, 2, 3, 4, 6}

VARIABLES
  colour,        \* the colour type in IHDR
  chunks,        \* the chunks read so far, then "end"
  ihdr, palette, transparency, idatSeen, idatClosed, iend,   \* its flags
  verdict        \* scanning, decoding, accepted or refused

pngVars == <<colour, chunks, ihdr, palette, transparency, idatSeen, idatClosed,
             iend, verdict>>

PngInit ==
  /\ colour \in Colours
  /\ chunks = <<>>
  /\ ihdr = FALSE /\ palette = FALSE /\ transparency = FALSE
  /\ idatSeen = FALSE /\ idatClosed = FALSE /\ iend = FALSE
  /\ verdict = "scanning"

PngTypeOK ==
  /\ colour \in Colours
  /\ chunks \in Seq([type : Types \cup {"end"}, sound : BOOLEAN])
  /\ {ihdr, palette, transparency, idatSeen, idatClosed, iend} \subseteq BOOLEAN
  /\ verdict \in {"scanning", "decoding", "accepted", "refused"}

\* Mutant: IDAT chunks need not follow each other.
RefusesScattered(chunk) ==
  \/ ~chunk.sound \/ iend
  \/ chunk.type = "IHDR" /\ (ihdr \/ chunks # <<>>)
  \/ chunk.type # "IHDR" /\ ~ihdr
  \/ chunk.type = "PLTE" /\ (idatSeen \/ palette \/ colour \in {0, 4})
  \/ /\ chunk.type = "tRNS"
     /\ \/ idatSeen \/ transparency
        \/ colour \in {4, 6} \/ (colour = 3 /\ ~palette)
  \/ chunk.type = "IDAT" /\ colour = 3 /\ ~palette
  \/ chunk.type = "IEND" /\ ~idatSeen
  \/ chunk.type = "critical"

(* The early returns of the loop.  (That data follow IEND is found when     *)
(* IEND is read; here, when what follows is.)                               *)
Refuses(chunk) ==
  \/ ~chunk.sound \/ iend
  \/ chunk.type = "IHDR" /\ (ihdr \/ chunks # <<>>)
  \/ chunk.type # "IHDR" /\ ~ihdr
  \/ chunk.type = "PLTE" /\ (idatSeen \/ palette \/ colour \in {0, 4})
  \/ /\ chunk.type = "tRNS"
     /\ \/ idatSeen \/ transparency
        \/ colour \in {4, 6} \/ (colour = 3 /\ ~palette)
  \/ chunk.type = "IDAT" /\ (idatClosed \/ (colour = 3 /\ ~palette))
  \/ chunk.type = "IEND" /\ ~idatSeen
  \/ chunk.type = "critical"

(* One turn of the loop.                                                    *)
ScanChunk(chunk) ==
  /\ verdict = "scanning" /\ Len(chunks) < MaxChunks
  /\ chunks' = Append(chunks, chunk)
  /\ IF Refuses(chunk)
     THEN /\ verdict' = "refused"
          /\ UNCHANGED <<ihdr, palette, transparency, idatSeen, idatClosed, iend>>
     ELSE /\ ihdr' = (ihdr \/ chunk.type = "IHDR")
          /\ palette' = (palette \/ chunk.type = "PLTE")
          /\ transparency' = (transparency \/ chunk.type = "tRNS")
          /\ idatSeen' = (idatSeen \/ chunk.type = "IDAT")
          /\ idatClosed' = (\/ idatClosed
                            \/ idatSeen /\ chunk.type \notin {"IDAT", "IEND"})
          /\ iend' = (iend \/ chunk.type = "IEND")
          /\ UNCHANGED verdict
  /\ UNCHANGED colour

(* After the loop: IHDR, IEND and an indexed image's palette must be there. *)
EndScan ==
  /\ verdict = "scanning"
  /\ chunks' = Append(chunks, [type |-> "end", sound |-> TRUE])
  /\ verdict' = IF ihdr /\ iend /\ (colour = 3 => palette) THEN "decoding"
                ELSE "refused"
  /\ UNCHANGED <<colour, ihdr, palette, transparency, idatSeen, idatClosed, iend>>

(* The rows: as many bytes as IHDR says, known filters, indices in the      *)
(* palette and nothing behind them, or a refusal.                           *)
DecodeRows ==
  /\ verdict = "decoding"
  /\ verdict' \in {"accepted", "refused"}
  /\ UNCHANGED <<colour, chunks, ihdr, palette, transparency, idatSeen,
                 idatClosed, iend>>

PngNext ==
  \/ \E chunk \in [type : Types, sound : BOOLEAN] : ScanChunk(chunk)
  \/ EndScan
  \/ DecodeRows

PngSpec == PngInit /\ [][PngNext]_pngVars

-----------------------------------------------------------------------------
(* What a sequence of chunks may be, of the order and number of its types.  *)
At(type) == {i \in DOMAIN chunks : chunks[i].type = type}
Before(A, B) == \A i \in A, j \in B : i < j
AtMostOne(A) == \A i, j \in A : i = j

WellFormedSoFar ==
  /\ \A i \in DOMAIN chunks : chunks[i].sound
  /\ At("critical") = {}
  /\ chunks # <<>> => At("IHDR") = {1}
  /\ AtMostOne(At("PLTE")) /\ Before(At("PLTE"), At("IDAT"))
  /\ colour \in {0, 4} => At("PLTE") = {}
  /\ AtMostOne(At("tRNS")) /\ Before(At("tRNS"), At("IDAT"))
  /\ colour \in {4, 6} => At("tRNS") = {}
  /\ colour = 3 => \A i \in At("tRNS") \cup At("IDAT") : \E j \in At("PLTE") : j < i
  /\ \A i, k \in At("IDAT"), j \in DOMAIN chunks :
       i < j /\ j < k => j \in At("IDAT")
  /\ \A i \in At("IEND") : /\ Before(At("IDAT"), {i}) /\ At("IDAT") # {}
                           /\ \A j \in DOMAIN chunks : j > i => j \in At("end")
  /\ \A i \in At("end") : \E j \in At("IEND") : j < i

(* The scan refuses an image at the first chunk that makes it ill-formed,   *)
(* and no other: the flags of the one pass add up to the format's grammar.  *)
ScanIsExact ==
  /\ verdict \in {"scanning", "decoding", "accepted"} => WellFormedSoFar
  /\ verdict = "refused" /\ WellFormedSoFar => At("end") # {} /\ iend

(* With the types of the flags.                                             *)
PngInvariant == PngTypeOK /\ ScanIsExact
=============================================================================
