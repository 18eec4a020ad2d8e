------------------------- MODULE StreamRelayProofs -------------------------
(***************************************************************************)
(* Theorems of StreamRelay, for every number of chunks.                    *)
(***************************************************************************)
EXTENDS StreamRelay, TLAPS

\* While the generator runs and no heartbeat has cut it off, the iterator is
\* live; and nothing is passed on that was not sent.
Unbroken ==
    /\ taken <= sent
    /\ pc # "ended" => ending = "none"
    /\ pc # "ended" /\ ~pings => iterator = "live"

RelayInv == TypeOK /\ Unbroken /\ QuietEndIsComplete

LEMMA RelayInit == Init => RelayInv
<1> SUFFICES ASSUME Init
             PROVE  RelayInv
  OBVIOUS
<1>1. TypeOK
  <2>1. sent \in 1..MaxChunks /\ taken \in 0..MaxChunks
    BY RelayAssumption DEF Init
  <2>2. pings \in BOOLEAN
    BY Zenon DEF Init
  <2> QED BY <2>1, <2>2 DEF Init, TypeOK
<1>2. Unbroken /\ QuietEndIsComplete
  BY DEF Init, Unbroken, QuietEndIsComplete
<1> QED BY <1>1, <1>2 DEF RelayInv

\* The end of the body, and an error, end the response with what was sent.
LEMMA EndStep ==
    ASSUME RelayInv, EndOfBody \/ MidStreamError
    PROVE  RelayInv'
<1> USE RelayAssumption DEF RelayInv, TypeOK, Unbroken, QuietEndIsComplete, Relay, EndAs
<1>1. CASE EndOfBody
  BY <1>1 DEF EndOfBody
<1>2. CASE MidStreamError
  BY <1>2 DEF MidStreamError
<1> QED BY <1>1, <1>2

LEMMA RelayStep == RelayInv /\ [Next]_vars => RelayInv'
<1> SUFFICES ASSUME RelayInv, [Next]_vars
             PROVE  RelayInv'
  OBVIOUS
<1> USE RelayAssumption DEF RelayInv, TypeOK, Unbroken, QuietEndIsComplete
<1>1. CASE Send
  BY <1>1 DEF Send
<1>2. CASE Stop
  BY <1>2 DEF Stop
<1>3. CASE Disconnect
  BY <1>3 DEF Disconnect
<1>4. CASE YieldFirst
  BY <1>4 DEF YieldFirst, Relay
<1>5. CASE Poll
  BY <1>5 DEF Poll, Relay, EndAs
<1>6. CASE TakeChunk
  BY <1>6 DEF TakeChunk, Relay
<1>7. CASE Heartbeat
  BY <1>7 DEF Heartbeat, Relay
<1>8. CASE EndOfBody \/ MidStreamError
  BY <1>8, EndStep DEF RelayInv
<1>9. CASE UNCHANGED vars
  BY <1>9 DEF vars
<1> QED
  BY <1>1, <1>2, <1>3, <1>4, <1>5, <1>6, <1>7, <1>8, <1>9 DEF Next, Generator

\* The relay's variables stay well typed, for every MaxChunks.
THEOREM RelayTypeCorrect == Spec => []TypeOK
<1>1. RelayInv => TypeOK
  BY DEF RelayInv
<1> QED BY RelayInit, RelayStep, <1>1, PTL DEF Spec

\* server.py:551: a response that ends without an error event, to a client that
\* is there and got no heartbeat, is the whole body, however long it is.
THEOREM QuietEnds == Spec => []QuietEndIsComplete
<1>1. RelayInv => QuietEndIsComplete
  BY DEF RelayInv
<1> QED BY RelayInit, RelayStep, <1>1, PTL DEF Spec
=============================================================================
