----------------------------- MODULE MmgrFrames -----------------------------
(***************************************************************************)
(* MmgrBaseResponse: one read of the modem manager's socket is cut into    *)
(* responses, each an id, a timestamp, the payload's size and the payload. *)
(* Data are words.  What is left of a cut frame at the end of a read is    *)
(* dropped, and the next read starts in the middle of it.                  *)
(***************************************************************************)
EXTENDS Naturals, Sequences, SequencesExt, FiniteSets

CONSTANTS MaxFrames, MaxFrPayload

FrAck == 1
FrStatus == 2
FrIds == {FrAck, FrStatus}
FrHeader == 3

VARIABLES
  frSent,    \* the frames the service wrote: <<id, payload words>>
  frStart,   \* the word the next read starts at
  frLast,    \* the last read: [from, to, got, thrown]
  frDead     \* a parser's exception has ended the reader
frVars == <<frSent, frStart, frLast, frDead>>

\* A frame as the service writes it; the words of a payload are small numbers.
FrWords(f) == <<f.id, 0, f.n>> \o [i \in 1..f.n |-> 1]
FrData == FlattenSeq([i \in 1..Len(frSent) |-> FrWords(frSent[i])])
FrEnd(i) == Len(FlattenSeq([j \in 1..i |-> FrWords(frSent[j])]))
FrBoundaries == {FrEnd(i) : i \in 0..Len(frSent)}

FrInit ==
  /\ frSent = <<>> /\ frStart = 0 /\ frDead = FALSE
  /\ frLast = [from |-> 0, to |-> 0, got |-> <<>>, thrown |-> FALSE]
-----------------------------------------------------------------------------
\* parseRawFrame: the three words and the payload; a size that goes past the
\* data throws.
parseRawFrame(d, o) ==
  [id |-> d[o + 1], n |-> d[o + 3], thrown |-> d[o + 3] > Len(d) - o - FrHeader]

\* A faulty variant; no step uses it.
getRawFrameLength_header(r) == FrHeader

\* The length of the object parseResponse made: an ACK has lost its payload.
getRawFrameLength(r) == IF r.id = FrAck THEN FrHeader ELSE FrHeader + r.n

\* parseResponses: response after response while a header fits.  An exception
\* loses the responses already found.
parseResponses(d) ==
  LET parse[o \in 0..Len(d)] ==
        IF Len(d) - o < FrHeader THEN [got |-> <<>>, thrown |-> FALSE]
        ELSE LET r == parseRawFrame(d, o)
             IN  IF r.thrown THEN [got |-> <<>>, thrown |-> TRUE]
                 ELSE LET rest == parse[o + getRawFrameLength(r)]
                      IN  [got |-> <<r.id>> \o rest.got, thrown |-> rest.thrown]
  IN  parse[0]
-----------------------------------------------------------------------------
FrSend ==
  /\ Len(frSent) < MaxFrames
  /\ \E id \in FrIds, n \in 0..MaxFrPayload : frSent' = Append(frSent, [id |-> id, n |-> n])
  /\ UNCHANGED <<frStart, frLast, frDead>>

\* One read returns some of what is there; handleResponse parses just that.
FrRead ==
  /\ ~frDead /\ frStart < Len(FrData)
  /\ \E to \in (frStart + 1)..Len(FrData) :
       LET p == parseResponses(SubSeq(FrData, frStart + 1, to))
       IN  /\ frLast' = [from |-> frStart, to |-> to, got |-> IF p.thrown THEN <<>> ELSE p.got,
                         thrown |-> p.thrown]
           /\ frStart' = to
           /\ frDead' = p.thrown
  /\ UNCHANGED frSent

FrNext == FrSend \/ FrRead
FrSpec == FrInit /\ [][FrNext]_frVars
-----------------------------------------------------------------------------
FrRange == {i \in DOMAIN frSent : frLast.from < FrEnd(i) /\ FrEnd(i) <= frLast.to}

\* A read that starts and ends between frames gives exactly the responses of
\* its frames, in order, whatever the reads before it lost.  The exception is
\* an ACK that carries a payload.
BoundaryReadsAreExact ==
  (/\ {frLast.from, frLast.to} \subseteq FrBoundaries
   /\ \A i \in FrRange : frSent[i].id = FrAck => frSent[i].n = 0)
  => /\ ~frLast.thrown
     /\ frLast.got = [k \in 1..Cardinality(FrRange) |->
                        frSent[Cardinality({i \in DOMAIN frSent : FrEnd(i) <= frLast.from}) + k].id]

=============================================================================
