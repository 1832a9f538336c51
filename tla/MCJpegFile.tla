----------------------------- MODULE MCJpegFile -----------------------------
(* Instances of JpegFile: a buffer of a few bytes, a mark of three, and    *)
(* pictures with segments that hold what looks like a mark or an end.      *)
EXTENDS JpegFile

Soi == <<15, 8>>
Segment(code, payload) == <<15, code, 0, Len(payload) + 2>> \o payload
ThreeByteMark == <<1, 2, 1>>
Mark == Segment(13, ThreeByteMark)
AfterMark == Len(Soi) + Len(Mark)

Scan == <<15, 10>>
Scans == {<<>>, <<3>>, <<3, 1, 2>>}
Payloads == {<<>>, <<15, 9>>, <<4, 15, 9, 4>>, Mark}

Picture(k, first, payload, scan) ==
  [kind |-> k, bytes |-> Soi \o first \o Segment(14, payload) \o Scan \o scan \o <<15, 9>>]

SmallPictures ==
  {Picture("argb", Mark, p, s) : p \in Payloads, s \in Scans}
    \cup {Picture("plain", <<>>, p, s) : p \in Payloads, s \in Scans}

(* Markers of the same code that hold something else, the mark and more,   *)
(* too little, or the mark where the scan has begun; and files that have   *)
(* nothing of a picture, or no scan.                                       *)
ForeignFiles ==
  {Picture("plain", Segment(13, m), p, <<3>>) : m \in {<<1, 2, 2>>, <<2, 1, 2, 1>>}, p \in Payloads}
    \cup {Picture("argb", Segment(13, ThreeByteMark \o m), p, <<3>>) : m \in {<<5>>, <<15, 9>>}, p \in {<<>>, Mark}}
    \cup {Picture("short", Segment(13, m), <<>>, <<3>>) : m \in {<<>>, <<1, 2>>}}
    \cup {Picture("plain", <<>>, <<>>, s) : s \in {Mark, <<3>> \o Mark, Scan \o Mark, Segment(13, <<1>>)}}
    \cup {Picture("argb", Mark, <<>>, Segment(13, <<1, 2, 2>>))}
    \cup {[kind |-> "plain", bytes |-> b] : b \in {<<>>, <<15>>, <<3>>, Soi \o <<15, 9>>}}
=============================================================================
