---------------------------- MODULE Drivers_proofs ----------------------------
(***************************************************************************)
(* The two drivers of the cube's front.  LcdFlush: for every panel, every  *)
(* size of the draw buffers and any number of failed transfers.  RgbLed:   *)
(* for any commands, colours and number of brightness levels.              *)
(***************************************************************************)
EXTENDS LcdFlush, RgbLed, TLAPS

-----------------------------------------------------------------------------
(* LcdFlush.                                                                 *)

(* The places inside disp_flush.                                             *)
InFlush == {"raset", "ramwr", "transmit"}

(* disp_flush runs with the flag up and the stream at rest; the stream runs  *)
(* only with the flag up.  Without that the thread could meet a transfer.    *)
Handshake ==
  /\ at \in InFlush => flushing = 1 /\ ~dma.on /\ State = "READY"
  /\ flushing = 0 => ~dma.on /\ State = "READY"

(* A frame has rows left exactly while the thread renders or waits, and a    *)
(* part fits into a buffer.                                                  *)
Progress ==
  /\ at \in {"render", "wait"} => todo.y1 <= todo.y2
  /\ at = "idle" => todo.y1 > todo.y2
  /\ at \in InFlush => todo.y1 = part.y2 + 1
  /\ part.y1 <= part.y2 /\ part.y2 - part.y1 + 1 <= BufLines

(* The buffer holds an area of the picture, but for what is to be redrawn.   *)
Holds(b, area) ==
  \A r \in RowsOf(area) \ RowsOf(todo) : drawn[b][r - area.y1] = picture[r]

Rendered ==
  /\ at = "wait" =>
       \A r \in RowsOf(NextPart) : drawn[buf_act][r - todo.y1] = picture[r]
  /\ at \in InFlush => Holds(buf_act, part)

Addressed ==
  /\ at \in {"ramwr", "transmit"} => window = part
  /\ at = "transmit" => cursor = part.y1

(* A running transfer: where it stands on the panel, what it reads, and what *)
(* it has shown so far.                                                      *)
Transfer ==
  dma.on =>
    /\ window = part
    /\ dma.size = part.y2 - part.y1 + 1 /\ dma.sent <= dma.size
    /\ dma.sent < dma.size => cursor = part.y1 + dma.sent
    /\ Holds(dma.buf, part)
    /\ \A r \in part.y1..part.y1 + dma.sent - 1 :
         r \notin RowsOf(todo) => panel[r] = picture[r]

IInv ==
  /\ TypeOK /\ Handshake /\ Progress /\ Rendered /\ Addressed /\ Transfer
  /\ QuietBus /\ PanelShowsFrame

-----------------------------------------------------------------------------
(* Rows and lines are as many as the constants say.                          *)
LEMMA RowFacts ==
  /\ Rows \in Nat /\ BufLines \in Nat /\ Rows > 0 /\ BufLines > 0
  /\ Row = 0..Rows - 1 /\ Line = 0..BufLines - 1
  /\ Garbled \notin Pictures /\ MaxFaults \in Nat
BY LcdAssumption DEF Row, Line

(* The next part is a non-empty piece of what is left, from its beginning.   *)
LEMMA NextPartFits ==
  ASSUME TypeOK, todo.y1 <= todo.y2
  PROVE  /\ NextPart \in Area
         /\ NextPart.y1 = todo.y1 /\ NextPart.y1 <= NextPart.y2
         /\ NextPart.y2 <= todo.y2
         /\ NextPart.y2 - NextPart.y1 + 1 <= BufLines
BY RowFacts DEF TypeOK, NextPart, Area

LEMMA InitIInv == Init => IInv
<1> SUFFICES ASSUME Init PROVE IInv
  OBVIOUS
<1>1. TypeOK
  BY RowFacts DEF Init, TypeOK, Area
<1>2. Handshake /\ Progress /\ Rendered /\ Addressed /\ Transfer /\ QuietBus
  BY RowFacts DEF Init, Handshake, Progress, Rendered, Addressed, Transfer,
       QuietBus, InFlush
<1>3. PanelShowsFrame
  BY RowFacts DEF Init, PanelShowsFrame, RowsOf
<1> QED
  BY <1>1, <1>2, <1>3 DEF IInv

(* The stream is at rest while disp_flush runs, for the next six lemmas.     *)
LEMMA InvalidateKeeps == IInv /\ Invalidate => IInv'
<1> SUFFICES ASSUME IInv, Invalidate PROVE IInv'
  OBVIOUS
<1> USE RowFacts DEF IInv
<1>1. PICK area \in Area, p \in Pictures :
        /\ area.y1 <= area.y2
        /\ todo' = area
        /\ picture' = [r \in Row |-> IF r \in RowsOf(area) THEN p ELSE picture[r]]
  BY DEF Invalidate
<1>2. TypeOK'
  BY <1>1 DEF TypeOK, Invalidate, Area
<1>3. /\ area.y1 \in Row /\ area.y2 \in Row
      /\ part.y1 \in Row /\ part.y2 \in Row
  BY <1>1 DEF TypeOK, Area
<1>4. \A r \in Row : r \notin RowsOf(area) => picture'[r] = picture[r]
  BY <1>1
<1>5. \A r \in Row : r \notin RowsOf(todo)
  BY DEF Invalidate, Progress, RowsOf, TypeOK, Area
<1>6. Handshake' /\ Addressed' /\ Progress'
  BY <1>1 DEF Handshake, Progress, Addressed, Invalidate, InFlush
<1>7. Rendered'
  BY DEF Rendered, Invalidate, InFlush
<1>8. Transfer'
  <2> SUFFICES ASSUME dma.on PROVE Transfer'
    BY DEF Transfer, Invalidate
  <2>1. RowsOf(part) \subseteq Row
    BY <1>3 DEF RowsOf
  <2>2. Holds(dma.buf, part)'
    BY <1>1, <1>4, <1>5, <2>1 DEF Transfer, Holds, Invalidate
  <2>3. part.y1..part.y1 + dma.sent - 1 \subseteq Row
    <3>1. dma.sent \in 0..BufLines /\ dma.size \in 0..BufLines
      BY DEF TypeOK
    <3>2. dma.sent <= part.y2 - part.y1 + 1
      BY <3>1 DEF Transfer
    <3> QED
      BY <1>3, <3>1, <3>2
  <2>4. \A r \in part.y1..part.y1 + dma.sent - 1 :
          r \notin RowsOf(todo') => panel[r] = picture'[r]
    BY <1>1, <1>4, <1>5, <2>3 DEF Transfer
  <2> QED
    <3>1. /\ part' = part /\ dma' = dma /\ window' = window /\ cursor' = cursor
          /\ panel' = panel
      BY DEF Invalidate
    <3> QED
      BY <2>2, <2>4, <3>1 DEF Transfer
<1>9. QuietBus'
  BY DEF QuietBus, Invalidate
<1>10. PanelShowsFrame'
  BY <1>1, <1>4, <1>5 DEF PanelShowsFrame, InFlight, Invalidate
<1> QED
  BY <1>2, <1>6, <1>7, <1>8, <1>9, <1>10

LEMMA RenderKeeps == IInv /\ Render => IInv'
<1> SUFFICES ASSUME IInv, Render PROVE IInv'
  OBVIOUS
<1> USE RowFacts DEF IInv
<1>1. todo \in [y1 : 0..Rows, y2 : Row] /\ todo.y1 \in Int /\ todo.y2 \in Row
  BY DEF TypeOK
<1>2. RowsOf(NextPart) \subseteq Row
  BY <1>1, NextPartFits DEF Render, Progress, RowsOf, Area
<1>3. drawn' \in [{0, 1} -> [Line -> Pictures]]
  <2>1. \A i \in Line : /\ todo.y1 + i \in RowsOf(NextPart) => picture[todo.y1 + i] \in Pictures
                       /\ drawn[buf_act][i] \in Pictures
    BY <1>2 DEF TypeOK
  <2> DEFINE new == [i \in Line |-> IF todo.y1 + i \in RowsOf(NextPart)
                                   THEN picture[todo.y1 + i] ELSE drawn[buf_act][i]]
  <2>2. new \in [Line -> Pictures]
    BY <2>1
  <2>3. drawn' = [drawn EXCEPT ![buf_act] = new]
    BY DEF Render
  <2> HIDE DEF new
  <2> QED
    BY <2>2, <2>3 DEF TypeOK
<1>4. TypeOK'
  BY <1>3 DEF TypeOK, Render
<1>5. /\ \A r \in RowsOf(NextPart) : drawn'[buf_act][r - todo.y1] = picture[r]
      /\ \A b \in {0, 1} : b # buf_act => drawn'[b] = drawn[b]
  <2>1. \A r \in RowsOf(NextPart) : r - todo.y1 \in Line /\ todo.y1 + (r - todo.y1) = r
    BY <1>1, NextPartFits DEF Render, Progress, RowsOf, Area
  <2>2. \A i \in Line : todo.y1 + i \in RowsOf(NextPart) =>
          drawn'[buf_act][i] = picture[todo.y1 + i]
    BY DEF TypeOK, Render
  <2> QED
    BY <2>1, <2>2 DEF TypeOK, Render
<1>6. Handshake' /\ Progress' /\ Addressed'
  BY DEF Handshake, Progress, Addressed, Render, InFlush
<1>7. Rendered'
  BY <1>5 DEF Rendered, Render, InFlush, NextPart
<1>8. Transfer'
  BY <1>5 DEF Transfer, Holds, QuietBus, Render, TypeOK
<1>9. QuietBus' /\ PanelShowsFrame'
  BY DEF QuietBus, PanelShowsFrame, InFlight, Render
<1> QED
  BY <1>4, <1>6, <1>7, <1>8, <1>9

LEMMA FlushKeeps == IInv /\ Flush => IInv'
<1> SUFFICES ASSUME IInv, Flush PROVE IInv'
  OBVIOUS
<1> USE RowFacts DEF IInv
<1>1. /\ todo.y1 \in 0..Rows /\ todo.y2 \in Row
      /\ todo'.y1 = NextPart.y2 + 1 /\ todo'.y2 = todo.y2
  BY DEF TypeOK, Flush
<1>2. /\ NextPart \in Area /\ NextPart.y1 = todo.y1
      /\ NextPart.y1 <= NextPart.y2 /\ NextPart.y2 <= todo.y2
      /\ NextPart.y2 - NextPart.y1 + 1 <= BufLines
  BY NextPartFits DEF Flush, Progress
<1>3. TypeOK'
  <2>1. NextPart.y2 + 1 \in 0..Rows
    BY <1>2 DEF Area
  <2>2. todo' \in [y1 : 0..Rows, y2 : Row]
    BY <2>1 DEF TypeOK, Flush
  <2> QED
    BY <1>2, <2>2 DEF TypeOK, Flush
<1>4. Handshake' /\ Addressed' /\ Transfer' /\ QuietBus'
  BY DEF Handshake, Addressed, Transfer, QuietBus, Flush, InFlush
<1>5. Progress'
  BY <1>1, <1>2 DEF Progress, Flush, InFlush
<1>6. Rendered'
  BY <1>2 DEF Rendered, Holds, Flush, InFlush
<1>7. PanelShowsFrame'
  <2>1. \A r \in RowsOf(todo) : r \in RowsOf(todo') \cup RowsOf(NextPart)
    BY <1>1, <1>2 DEF RowsOf, Area
  <2> QED
    BY <2>1 DEF PanelShowsFrame, InFlight, Flush
<1> QED
  BY <1>3, <1>4, <1>5, <1>6, <1>7

LEMMA AddressKeeps == IInv /\ (lcd_address_set \/ RamWrite) => IInv'
<1> SUFFICES ASSUME IInv, lcd_address_set \/ RamWrite PROVE IInv'
  OBVIOUS
<1> USE RowFacts DEF IInv
<1>1. TypeOK'
  <2>1. CASE lcd_address_set
    BY <2>1 DEF TypeOK, AfterByte, lcd_address_set
  <2>2. CASE RamWrite
    <3>1. cursor' \in Row
      BY <2>2 DEF TypeOK, Area, RamWrite
    <3> QED
      BY <2>2, <3>1 DEF TypeOK, AfterByte, RamWrite
  <2> QED
    BY <2>1, <2>2
<1>2. Handshake' /\ Progress' /\ Rendered' /\ Addressed'
  BY DEF Handshake, Progress, Rendered, Addressed, Holds, InFlush,
       lcd_address_set, RamWrite
<1>3. Transfer' /\ QuietBus'
  BY DEF Handshake, Transfer, QuietBus, InFlush, lcd_address_set, RamWrite
<1>4. PanelShowsFrame'
  BY DEF PanelShowsFrame, InFlight, lcd_address_set, RamWrite
<1> QED
  BY <1>1, <1>2, <1>3, <1>4

LEMMA FillKeeps == IInv /\ lcd_fill_array => IInv'
<1> SUFFICES ASSUME IInv, lcd_fill_array PROVE IInv'
  OBVIOUS
<1> USE RowFacts DEF IInv
<1>1. /\ State = "READY" /\ ~dma.on /\ flushing = 1
      /\ window = part /\ cursor = part.y1
      /\ todo.y1 = part.y2 + 1
  BY DEF lcd_fill_array, Handshake, Addressed, Progress, InFlush
<1>2. /\ dma' = [on |-> TRUE, buf |-> buf_act, sent |-> 0,
                 size |-> part.y2 - part.y1 + 1]
      /\ State' = "BUSY_TX" /\ buf_act' = 1 - buf_act /\ bus' = Pixels
      /\ at' = IF todo.y1 <= todo.y2 THEN "render" ELSE "idle"
  BY <1>1 DEF lcd_fill_array, StartTransfer, Returned
<1>3. /\ part.y1 \in Row /\ part.y2 \in Row /\ part.y1 <= part.y2
      /\ part.y2 - part.y1 + 1 <= BufLines
      /\ todo.y1 \in Int /\ todo.y2 \in Int
  BY DEF TypeOK, Area, Progress
<1>4. dma' \in [on : BOOLEAN, buf : {0, 1}, sent : 0..BufLines, size : 0..BufLines]
  BY <1>2, <1>3 DEF TypeOK
<1>5. TypeOK'
  BY <1>2, <1>4 DEF TypeOK, Pixels, lcd_fill_array
<1>6. Handshake' /\ Progress' /\ Rendered' /\ Addressed'
  BY <1>1, <1>2, <1>3 DEF Handshake, Progress, Rendered, Addressed, InFlush,
       lcd_fill_array
<1>7. Transfer'
  <2>1. Holds(buf_act, part)
    BY DEF Rendered, InFlush, lcd_fill_array
  <2>2. /\ dma'.on /\ dma'.buf = buf_act /\ dma'.sent = 0
        /\ dma'.size = part.y2 - part.y1 + 1
    BY <1>2
  <2>3. Holds(dma.buf, part)'
    BY <2>1, <2>2 DEF Holds, lcd_fill_array
  <2>4. dma'.sent <= dma'.size /\ cursor' = part'.y1 + dma'.sent
    BY <1>1, <1>3, <2>2 DEF lcd_fill_array
  <2>5. part'.y1..part'.y1 + dma'.sent - 1 = {}
    BY <1>3, <2>2 DEF lcd_fill_array
  <2> QED
    BY <1>1, <2>2, <2>3, <2>4, <2>5 DEF Transfer, lcd_fill_array
<1>8. QuietBus'
  BY <1>2 DEF QuietBus, TypeOK
<1>9. PanelShowsFrame'
  BY DEF PanelShowsFrame, InFlight, lcd_fill_array
<1> QED
  BY <1>5, <1>6, <1>7, <1>8, <1>9

LEMMA DmaRowKeeps == IInv /\ DmaRow => IInv'
<1> SUFFICES ASSUME IInv, DmaRow PROVE IInv'
  OBVIOUS
<1> USE RowFacts DEF IInv
<1> DEFINE here == part.y1 + dma.sent
<1>1. /\ dma.on /\ bus = Pixels /\ window = part /\ cursor = here
      /\ dma.size = part.y2 - part.y1 + 1 /\ dma.sent < dma.size
  BY DEF DmaRow, QuietBus, Transfer
<1>2. /\ part.y1 \in Row /\ part.y2 \in Row /\ part.y1 <= part.y2
      /\ part.y2 - part.y1 + 1 <= BufLines
      /\ dma.sent \in 0..BufLines /\ dma.size \in 0..BufLines
  BY DEF TypeOK, Area, Progress
<1>3. here \in RowsOf(part) /\ here \in Row /\ dma.sent \in Line
  BY <1>1, <1>2 DEF RowsOf
<1>4. panel' = [panel EXCEPT ![here] = drawn[dma.buf][dma.sent]]
  BY <1>1 DEF DmaRow
<1>5. /\ dma' = [dma EXCEPT !.sent = @ + 1]
      /\ cursor' = IF here < part.y2 THEN here + 1 ELSE part.y1
  BY <1>1 DEF DmaRow
<1>6. drawn[dma.buf][dma.sent] \in Pictures
  BY <1>3 DEF TypeOK
<1>7. /\ dma.sent + 1 \in 0..BufLines
      /\ here + 1 = part.y1 + (dma.sent + 1)
      /\ dma.sent + 1 < dma.size <=> here < part.y2
      /\ cursor' \in Row
  <2>1. dma.sent + 1 \in 0..BufLines
    BY <1>1, <1>2
  <2>2. here + 1 = part.y1 + (dma.sent + 1) /\ (dma.sent + 1 < dma.size <=> here < part.y2)
    BY <1>1, <1>2
  <2>3. cursor' \in Row
    BY <1>2, <1>3, <1>5
  <2> QED
    BY <2>1, <2>2, <2>3
<1>8. TypeOK'
  BY <1>4, <1>5, <1>6, <1>7 DEF TypeOK, DmaRow
<1>9. Handshake' /\ Progress' /\ Rendered' /\ Addressed'
  BY <1>1, <1>5 DEF Handshake, Progress, Rendered, Addressed, Holds, NextPart, InFlush, DmaRow,
       QuietBus
<1>10. here \notin RowsOf(todo) => drawn[dma.buf][dma.sent] = picture[here]
  <2>1. here - part.y1 = dma.sent
    BY <1>2
  <2> QED
    BY <1>1, <1>3, <2>1 DEF Transfer, Holds
<1>11. \A r \in Row : panel'[r] = IF r = here THEN drawn[dma.buf][dma.sent] ELSE panel[r]
  BY <1>4 DEF TypeOK
<1>12. Transfer'
  <2>1. /\ window' = part' /\ dma'.size = part'.y2 - part'.y1 + 1
        /\ dma'.sent = dma.sent + 1 /\ dma'.sent <= dma'.size
        /\ dma'.buf = dma.buf /\ part' = part /\ todo' = todo /\ picture' = picture
    BY <1>1, <1>2, <1>5 DEF TypeOK, DmaRow
  <2>2. dma'.sent < dma'.size => cursor' = part.y1 + dma'.sent
    BY <1>5, <1>7, <2>1
  <2>3. Holds(dma.buf, part)'
    BY <1>1, <1>5 DEF Transfer, Holds, TypeOK, DmaRow
  <2>4. \A r \in part.y1..here : r \notin RowsOf(todo) => panel'[r] = picture[r]
    <3>1. \A r \in part.y1..here : r \in Row /\ (r = here \/ (r # here /\ r \in part.y1..here - 1))
      BY <1>2, <1>3
    <3>2. \A r \in part.y1..here - 1 : r \notin RowsOf(todo) => panel[r] = picture[r]
      <4>1. here - 1 = part.y1 + dma.sent - 1
        BY <1>2
      <4>2. \A r \in part.y1..part.y1 + dma.sent - 1 :
              r \notin RowsOf(todo) => panel[r] = picture[r]
        BY <1>1 DEF Transfer
      <4> HIDE DEF here
      <4> QED
        BY <4>1, <4>2
    <3> HIDE DEF here
    <3> QED
      BY <1>10, <1>11, <3>1, <3>2
  <2>5. part.y1 + dma'.sent - 1 = here
    BY <2>1, <1>2
  <2> QED
    BY <2>1, <2>2, <2>3, <2>4, <2>5 DEF Transfer
<1>13. QuietBus'
  BY <1>5 DEF QuietBus, DmaRow, TypeOK
<1>14. PanelShowsFrame'
  <2>1. flushing = 1
    BY <1>1 DEF Handshake, TypeOK
  <2> QED
    BY <1>3, <1>11, <2>1 DEF PanelShowsFrame, InFlight, DmaRow
<1> QED
  BY <1>8, <1>9, <1>12, <1>13, <1>14

LEMMA DoneKeeps == IInv /\ lcd_spi_dma_txcplt_callback => IInv'
<1> SUFFICES ASSUME IInv, lcd_spi_dma_txcplt_callback PROVE IInv'
  OBVIOUS
<1> USE RowFacts DEF IInv, lcd_spi_dma_txcplt_callback
<1>1. ~dma'.on /\ dma.on /\ dma.sent = dma.size /\ at \notin InFlush
  BY DEF TypeOK, QuietBus, InFlush
<1>2. TypeOK'
  BY DEF TypeOK
<1>3. Handshake' /\ Progress' /\ Rendered' /\ Addressed' /\ Transfer' /\ QuietBus'
  BY <1>1 DEF Handshake, Progress, Rendered, NextPart, Addressed, Transfer, QuietBus, InFlush
<1>4. PanelShowsFrame'
  <2>1. \A r \in RowsOf(part) \ RowsOf(todo) : panel[r] = picture[r]
    <3>1. part.y1 + dma.sent - 1 = part.y2
      BY <1>1 DEF Transfer, TypeOK, Area
    <3> QED
      BY <1>1, <3>1 DEF Transfer, RowsOf
  <2> QED
    BY <2>1 DEF PanelShowsFrame, InFlight
<1> QED
  BY <1>2, <1>3, <1>4

LEMMA ErrorKeeps == IInv /\ DmaError => IInv'
<1> SUFFICES ASSUME IInv, DmaError PROVE IInv'
  OBVIOUS
<1> USE RowFacts DEF IInv, DmaError
<1>1. ~dma'.on /\ dma.on /\ at \notin InFlush /\ flushing = 1
  BY DEF TypeOK, QuietBus, InFlush, Handshake
<1>2. TypeOK'
  <2>1. faults + 1 \in 0..MaxFaults
    BY DEF TypeOK
  <2>2. dma' \in [on : BOOLEAN, buf : {0, 1}, sent : 0..BufLines, size : 0..BufLines]
    BY DEF TypeOK
  <2> QED
    BY <2>1, <2>2 DEF TypeOK
<1>3. Handshake' /\ Progress' /\ Rendered' /\ Addressed' /\ Transfer' /\ QuietBus'
  BY <1>1 DEF Handshake, Progress, Rendered, NextPart, Addressed, Transfer, QuietBus, InFlush
<1>4. PanelShowsFrame'
  BY DEF PanelShowsFrame, InFlight
<1> QED
  BY <1>2, <1>3, <1>4

-----------------------------------------------------------------------------
LEMMA StutterKeeps == IInv /\ UNCHANGED vars => IInv'
BY DEF IInv, vars, TypeOK, Handshake, Progress, Rendered, Holds, NextPart,
     Addressed, Transfer, QuietBus, PanelShowsFrame, InFlight

(* The invariant is inductive.                                               *)
THEOREM Invariance == Spec => []IInv
<1>1. IInv /\ [Next]_vars => IInv'
  <2> SUFFICES ASSUME IInv, [Next]_vars PROVE IInv'
    OBVIOUS
  <2> QED
    BY InvalidateKeeps, RenderKeeps, FlushKeeps, AddressKeeps, FillKeeps,
       DmaRowKeeps, DoneKeeps, ErrorKeeps, StutterKeeps DEF Next, Thread, Stream
<1> QED
  BY InitIInv, <1>1, PTL DEF Spec

(* Places, areas, rows and flags of the driver keep their types and bounds:  *)
(* no row outside the panel and no line outside a buffer is ever addressed.  *)
THEOREM TypeCorrect == Spec => []TypeOK
<1>1. IInv => TypeOK
  BY DEF IInv
<1> QED
  BY Invariance, <1>1, PTL

(* The thread and the transfer never meet on the bus or in a buffer, for any *)
(* height of the panel and of the buffers.                                   *)
THEOREM BusIsQuiet == Spec => []QuietBus
<1>1. IInv => QuietBus
  BY DEF IInv
<1> QED
  BY Invariance, <1>1, PTL

(* What LVGL holds for flushed is on the panel, whatever transfers fail.     *)
THEOREM PanelAlwaysShowsFrame == Spec => []PanelShowsFrame
<1>1. IInv => PanelShowsFrame
  BY DEF IInv
<1> QED
  BY Invariance, <1>1, PTL

-----------------------------------------------------------------------------
(* RgbLed.                                                                   *)

(* A change of mode that the rgb thread has still to handle. *)
ModePending == "MODE" \in events \/ (rpc = "mode" /\ "MODE" \in e)

(* The steps of HOLDOFF up to its clear. *)
OffSteps == {"off_blink", "off_breathe", "off_clear"}

(* Without one, the timers are those of the mode, or about to become so.     *)
TimersInv ==
  /\ ~ModePending /\ rpc = "level" => led_mode \in {"BREATHE", "FADEOUT"}
  /\ ~ModePending /\ rpc \in OffSteps => led_mode = "HOLDOFF"
  /\ rpc \in {"off_breathe", "off_clear"} => ~blink_on
  /\ rpc = "off_clear" => ~breathe_on
  /\ ~ModePending /\ rpc \notin OffSteps \cup {"level"} =>
       /\ breathe_on <=> led_mode \in {"BREATHE", "FADEOUT"}
       /\ blink_on <=> led_mode = "BLINK"
  /\ rpc = "wait" => events = {}

LedInv == LedTypeOK /\ TimersInv

LEMMA CallFacts ==
  ASSUME LedTypeOK, calls # <<>>
  PROVE  Head(calls) \in Call /\ Tail(calls) \in Seq(Call)
BY DEF LedTypeOK

LEMMA RgbFacts ==
  ASSUME NEW h \in Hues \cup {NoHue}, NEW v \in 0..VMax
  PROVE  Rgb(h, v) \in Colour /\ Full(h) \in Colour /\ Black \in Colour
BY LedAssumption DEF Rgb, Full, Colour, Black

Breathing == [flag : 0..2, v : 0..VMax, h : Hues \cup {NoHue}]

LEMMA BreathingFacts ==
  ASSUME NEW c \in Breathing, NEW d, NEW v \in 0..VMax,
         \/ d = [c EXCEPT !.v = v]
         \/ \E f \in 0..2 : d = [c EXCEPT !.v = v, !.flag = f]
         \/ \E h \in Hues \cup {NoHue} : d = [c EXCEPT !.v = v, !.h = h]
  PROVE  d \in Breathing
<1> DEFINE H == Hues \cup {NoHue}
<1>1. c \in [flag : 0..2, v : 0..VMax, h : H]
  BY DEF Breathing
<1> SUFFICES d \in [flag : 0..2, v : 0..VMax, h : H]
  BY DEF Breathing
<1>2. CASE d = [c EXCEPT !.v = v]
  <2> HIDE DEF H
  <2> QED  BY <1>1, <1>2
<1>3. ASSUME NEW f \in 0..2, d = [c EXCEPT !.v = v, !.flag = f]
      PROVE  d \in [flag : 0..2, v : 0..VMax, h : H]
  <2> HIDE DEF H
  <2> QED  BY <1>1, <1>3
<1>4. ASSUME NEW h \in H, d = [c EXCEPT !.v = v, !.h = h]
      PROVE  d \in [flag : 0..2, v : 0..VMax, h : H]
  <2> HIDE DEF H
  <2> QED  BY <1>1, <1>4
<1> QED  BY <1>2, <1>3, <1>4

LEMMA SendFacts ==
  ASSUME LedTypeOK, TimersInv, NEW bit \in Bits, Send(bit)
  PROVE  /\ events' \in SUBSET Bits /\ e' \in SUBSET Bits
         /\ rpc' \in {rpc, "mode"} /\ (rpc # "wait" => rpc' = rpc) /\ rpc' # "wait"
         /\ bit = "MODE" => ModePending'
         /\ bit # "MODE" => (ModePending' <=> ModePending)
<1>1. CASE rpc = "wait"
  BY <1>1 DEF LedTypeOK, TimersInv, Send, ModePending
<1>2. CASE rpc # "wait"
  BY <1>2 DEF LedTypeOK, Send, ModePending
<1> QED  BY <1>1, <1>2

LEMMA LedInitHolds == LedInit => LedInv
<1> SUFFICES ASSUME LedInit PROVE LedInv
  OBVIOUS
<1>1. LedTypeOK
  <2>1. VMax \in Nat /\ MaxCommands \in Nat
    BY LedAssumption
  <2>2. Black \in Colour
    BY <2>1 DEF Black, Colour
  <2>3. cfg \in Breathing
    BY <2>1 DEF LedInit, Breathing
  <2>4. calls \in Seq(Call) /\ issued \in 0..MaxCommands
    BY <2>1 DEF LedInit
  <2> QED  BY <2>2, <2>3, <2>4 DEF LedInit, LedTypeOK, Breathing, Modes
<1>2. TimersInv
  BY DEF LedInit, TimersInv, OffSteps, ModePending
<1> QED  BY <1>1, <1>2 DEF LedInv

LEMMA CallerStep ==
  ASSUME LedInv, StartCommand \/ Caller
  PROVE  LedInv'
<1> USE LedAssumption
<1>0. LedTypeOK /\ TimersInv
  BY DEF LedInv
<1>1. CASE StartCommand
  BY <1>0, <1>1 DEF StartCommand, driverVars, LedInv, LedTypeOK, TimersInv, OffSteps, ModePending
<1>2. ASSUME Caller PROVE calls # <<>> /\ calls' = Tail(calls)
  BY <1>2 DEF Caller, ws_set_color, ws_set_mode, ws_set_period
<1>3. ASSUME Caller
      PROVE  Head(calls).hue \in Hues \cup {NoHue} /\ Head(calls).mode \in Modes
             /\ calls' \in Seq(Call)
  BY <1>0, <1>2, <1>3, CallFacts DEF Call
<1>4. CASE ws_set_mode
  <2>1. Send("MODE") /\ "MODE" \in Bits
    BY <1>4 DEF ws_set_mode, Bits
  <2>2. /\ events' \in SUBSET Bits /\ e' \in SUBSET Bits
        /\ rpc' \in {rpc, "mode"} /\ rpc' # "wait" /\ ModePending'
    BY <1>0, <2>1, SendFacts
  <2>3. LedTypeOK'
    BY <1>0, <1>3, <1>4, <2>2 DEF Caller, LedTypeOK, ws_set_mode, driverVars
  <2>4. TimersInv'
    BY <1>0, <1>4, <2>2 DEF ws_set_mode, driverVars, TimersInv
  <2> QED  BY <2>3, <2>4 DEF LedInv
<1>5. CASE ws_set_color \/ ws_set_period
  <2>1. PICK bit \in Bits \ {"MODE"} : Send(bit)
    BY <1>5 DEF ws_set_color, ws_set_period, Bits
  <2>2. /\ events' \in SUBSET Bits /\ e' \in SUBSET Bits
        /\ rpc' \in {rpc, "mode"} /\ (rpc # "wait" => rpc' = rpc) /\ rpc' # "wait"
        /\ ModePending' <=> ModePending
    BY <1>0, <2>1, SendFacts
  <2>3. UNCHANGED <<led_mode, driverVars, issued, lastMode>>
        /\ rgb_color' \in Hues \cup {NoHue}
    BY <1>0, <1>3, <1>5 DEF Caller, LedTypeOK, ws_set_color, ws_set_period
  <2>4. LedTypeOK'
    BY <1>0, <1>3, <1>5, <2>2, <2>3 DEF Caller, LedTypeOK, driverVars
  <2>5. TimersInv'
    BY <1>0, <2>2, <2>3 DEF driverVars, TimersInv, OffSteps
  <2> QED  BY <2>4, <2>5 DEF LedInv
<1> QED  BY <1>1, <1>4, <1>5 DEF Caller

LEMMA InterruptStep ==
  ASSUME LedInv, Interrupt
  PROVE  LedInv'
<1> USE LedAssumption
<1>0. LedTypeOK /\ TimersInv
  BY DEF LedInv
<1>1. CASE BreatheTick \/ FadeTick
  <2>1. /\ breathe_on
        /\ UNCHANGED <<led_mode, events, e, rpc, breathe_on, blink_on, blink_lit,
                       callerVars>>
        /\ Show(Rgb(cfg.h, cfg'.v))
    BY <1>1 DEF BreatheTick, FadeTick
  <2>2. cfg \in Breathing /\ VMax \in Nat
    BY <1>0 DEF LedTypeOK, Breathing
  <2>3. cfg' \in Breathing
    <3>1. cfg.v \in 0..VMax /\ cfg.flag \in 0..2
      BY <2>2 DEF Breathing
    <3>2. CASE cfg.v > 1 /\ cfg' = [cfg EXCEPT !.v = cfg.v - 1]
      <4>1. cfg.v - 1 \in 0..VMax  BY <2>2, <3>1, <3>2
      <4> QED  BY <2>2, <3>2, <4>1, BreathingFacts
    <3>3. CASE cfg' = [cfg EXCEPT !.v = 0, !.flag = 0]
      <4>1. 0 \in 0..VMax /\ 0 \in 0..2  BY <2>2
      <4> QED  BY <2>2, <3>3, <4>1, BreathingFacts
    <3>4. CASE cfg.v < VMax - 1 /\ cfg' = [cfg EXCEPT !.v = cfg.v + 1]
      <4>1. cfg.v + 1 \in 0..VMax  BY <2>2, <3>1, <3>4
      <4> QED  BY <2>2, <3>4, <4>1, BreathingFacts
    <3>5. CASE cfg' = [cfg EXCEPT !.v = VMax, !.flag = 1]
      <4>1. VMax \in 0..VMax /\ 1 \in 0..2  BY <2>2
      <4> QED  BY <2>2, <3>5, <4>1, BreathingFacts
    <3> QED  BY <1>1, <3>1, <3>2, <3>3, <3>4, <3>5 DEF FadeTick, BreatheTick
  <2>4. Rgb(cfg.h, cfg'.v) \in Colour
    BY <2>2, <2>3, RgbFacts DEF Breathing
  <2>5. LedTypeOK'
    BY <1>0, <2>1, <2>3, <2>4 DEF LedTypeOK, Show, callerVars, Breathing
  <2>6. TimersInv'
    BY <1>0, <2>1 DEF TimersInv, OffSteps, ModePending
  <2> QED  BY <2>5, <2>6 DEF LedInv
<1>2. CASE FadeEnd
  <2>1. Send("MODE") /\ "MODE" \in Bits
    BY <1>2 DEF FadeEnd, Bits
  <2>2. /\ events' \in SUBSET Bits /\ e' \in SUBSET Bits
        /\ rpc' \in {rpc, "mode"} /\ rpc' # "wait" /\ ModePending'
    BY <1>0, <2>1, SendFacts
  <2>3. cfg' \in Breathing
    <3>1. cfg \in Breathing  BY <1>0 DEF LedTypeOK, Breathing
    <3>2. 0 \in 0..VMax  OBVIOUS
    <3>3. cfg' = [cfg EXCEPT !.v = 0]  BY <1>2 DEF FadeEnd
    <3> QED  BY <3>1, <3>2, <3>3, BreathingFacts
  <2>4. LedTypeOK'
    BY <1>0, <1>2, <2>2, <2>3 DEF LedTypeOK, FadeEnd, callerVars, Modes, Breathing
  <2>5. TimersInv'
    BY <1>0, <1>2, <2>2 DEF FadeEnd, TimersInv
  <2> QED  BY <2>4, <2>5 DEF LedInv
<1>3. CASE BlinkTick
  <2>1. Full(rgb_color) \in Colour /\ Black \in Colour
    BY <1>0, RgbFacts DEF LedTypeOK
  <2>2. LedTypeOK'
    BY <1>0, <1>3, <2>1 DEF LedTypeOK, BlinkTick, Show, callerVars
  <2>3. TimersInv'
    BY <1>0, <1>3 DEF BlinkTick, TimersInv, OffSteps, ModePending
  <2> QED  BY <2>2, <2>3 DEF LedInv
<1> QED  BY <1>1, <1>2, <1>3 DEF Interrupt

LEMMA ThreadStep ==
  ASSUME LedInv, RgbThread
  PROVE  LedInv'
<1> USE LedAssumption
<1>0. LedTypeOK /\ TimersInv
  BY DEF LedInv
<1>1. CASE Receive
  BY <1>0, <1>1 DEF Receive, RgbRuns, driverVars, callerVars, LedInv, LedTypeOK,
     TimersInv, OffSteps, ModePending
<1>2. Full(rgb_color) \in Colour /\ Black \in Colour
  BY <1>0, RgbFacts DEF LedTypeOK
<1>3. CASE HandleMode
  <2>1. LedTypeOK'
    <3>1. CASE ModeDirection
      BY <1>0, <3>1 DEF ModeDirection, RgbRuns, callerVars, LedTypeOK
    <3>2. CASE ModeLevel
      <4>1. now_color.hue \in Hues \cup {NoHue} /\ now_color.v \in 0..VMax
        BY <1>0 DEF LedTypeOK, Colour
      <4>2. cfg \in Breathing
        BY <1>0 DEF LedTypeOK, Breathing
      <4> DEFINE v == IF cfg.flag = 2 THEN now_color.v ELSE 0
      <4>3. v \in 0..VMax
        BY <4>1
      <4>4. cfg' \in Breathing
        <5>1. cfg' = [cfg EXCEPT !.v = v, !.h = now_color.hue]
          BY <3>2 DEF ModeLevel
        <5> HIDE DEF v
        <5> QED  BY <4>1, <4>2, <4>3, <5>1, BreathingFacts
      <4> QED  BY <1>0, <3>2, <4>4 DEF ModeLevel, RgbRuns, callerVars, LedTypeOK, Breathing
    <3>3. CASE ModeBlink \/ ModeHoldLight \/ ModeHoldOff
      BY <1>0, <1>2, <3>3 DEF ModeBlink, ModeHoldLight, ModeHoldOff, Show, RgbRuns,
         callerVars, LedTypeOK, Bits
    <3>4. CASE NoModeChange \/ HoldOffStop \/ ModeNone
      BY <1>0, <3>4 DEF NoModeChange, HoldOffStop, ModeNone, RgbRuns, driverVars,
         callerVars, LedTypeOK
    <3>5. CASE HoldOff
      BY <1>0, <1>2, <3>5 DEF HoldOff, Show, RgbRuns, callerVars, LedTypeOK
    <3> QED  BY <1>3, <3>1, <3>2, <3>3, <3>4, <3>5 DEF HandleMode
  <2>2. TimersInv'
    <3>1. CASE ModeDirection \/ ModeLevel
      BY <1>0, <3>1 DEF ModeDirection, ModeLevel, RgbRuns, TimersInv, OffSteps, ModePending
    <3>2. CASE ModeBlink \/ ModeHoldLight
      BY <1>0, <3>2 DEF ModeBlink, ModeHoldLight, RgbRuns, TimersInv, OffSteps, ModePending
    <3>3. CASE ModeHoldOff \/ ModeNone
      BY <1>0, <3>3 DEF ModeHoldOff, ModeNone, Show, RgbRuns, TimersInv, OffSteps, ModePending
    <3>4. CASE NoModeChange \/ HoldOffStop
      BY <1>0, <3>4 DEF NoModeChange, HoldOffStop, RgbRuns, driverVars, TimersInv, OffSteps, ModePending
    <3>5. CASE HoldOff
      BY <1>0, <3>5 DEF HoldOff, RgbRuns, TimersInv, OffSteps, ModePending
    <3> QED  BY <1>3, <3>1, <3>2, <3>3, <3>4, <3>5 DEF HandleMode
  <2> QED  BY <2>1, <2>2 DEF LedInv
<1>4. CASE Period \/ HandleColor
  <2>1. LedTypeOK'
    <3>1. CASE ColorBreathe
      BY <1>0, <3>1 DEF ColorBreathe, RgbRuns, callerVars, LedTypeOK, Colour
    <3>2. CASE ColorReset \/ ColorShow
      BY <1>0, <1>2, <3>2 DEF ColorReset, ColorShow, Show, RgbRuns, callerVars, LedTypeOK
    <3>3. CASE Period \/ ColorBlink
      BY <1>0, <3>3 DEF Period, ColorBlink, RgbRuns, driverVars, callerVars, LedTypeOK
    <3> QED  BY <1>4, <3>1, <3>2, <3>3 DEF HandleColor
  <2>2. /\ UNCHANGED <<led_mode, events, e, breathe_on, blink_on>>
        /\ rpc \in {"period", "color", "hue"} /\ rpc' \in {"color", "hue", "recv"}
    BY <1>4 DEF Period, HandleColor, ColorReset, ColorBreathe, ColorBlink, ColorShow,
       RgbRuns, driverVars
  <2>3. TimersInv'
    BY <1>0, <2>2 DEF TimersInv, OffSteps, ModePending
  <2> QED  BY <2>1, <2>3 DEF LedInv
<1> QED  BY <1>1, <1>3, <1>4 DEF RgbThread

THEOREM LedInductive == LedSpec => []LedInv
<1>1. LedInv /\ [LedNext]_ledVars => LedInv'
  <2>1. LedInv /\ UNCHANGED ledVars => LedInv'
    BY DEF ledVars, driverVars, callerVars, LedInv, LedTypeOK, TimersInv, OffSteps, ModePending
  <2> QED  BY <2>1, CallerStep, InterruptStep, ThreadStep DEF LedNext
<1> QED  BY <1>1, LedInitHolds, PTL DEF LedSpec

(* The level of the light never leaves its range and the colour written is   *)
(* always a colour, whichever of the three parties wrote last.               *)
THEOREM LedTypeCorrect == LedSpec => []LedTypeOK
<1>1. LedInv => LedTypeOK  BY DEF LedInv
<1> QED  BY <1>1, LedInductive, PTL

(* No change of mode is lost between the callers, the interrupt and the      *)
(* thread: once all is handled the timers are those the mode needs, for any  *)
(* commands in any number.                                                   *)
THEOREM TimersAlwaysMatchMode == LedSpec => []TimersMatchMode
<1>1. LedInv => TimersMatchMode
  BY DEF LedInv, TimersInv, OffSteps, ModePending, TimersMatchMode, Settled
<1> QED  BY <1>1, LedInductive, PTL

(* A change of colour that the rgb thread has still to handle. *)
ColorPending ==
  \/ "COLOR" \in events
  \/ "COLOR" \in e /\ rpc \in OffSteps \cup {"mode", "level", "holdoff", "period"}
  \/ rpc \in {"color", "hue"}

(* HOLDOFF, once cleared, with neither change pending. *)
FrameInv ==
  led_mode = "HOLDOFF" /\ ~ModePending /\ ~ColorPending /\ rpc \notin OffSteps
    => led \in {Black, Full(rgb_color)}

LEMMA FrameCallerStep ==
  ASSUME LedInv, FrameInv, StartCommand \/ Caller
  PROVE  FrameInv'
<1>0. LedTypeOK /\ TimersInv
  BY DEF LedInv
<1>1. CASE StartCommand
  BY <1>1 DEF StartCommand, driverVars, FrameInv, ModePending, ColorPending
<1>2. CASE ws_set_mode
  <2>1. ModePending'
    BY <1>0, <1>2, SendFacts DEF ws_set_mode, Bits
  <2> QED  BY <2>1 DEF FrameInv
<1>3. CASE ws_set_color
  <2>1. ColorPending'
    BY <1>3 DEF ws_set_color, Send, ColorPending
  <2> QED  BY <2>1 DEF FrameInv
<1>4. CASE ws_set_period
  <2>1. PICK bit \in Bits \ {"MODE", "COLOR"} : Send(bit)
    BY <1>4 DEF ws_set_period, Bits
  <2>2. rpc = "wait" => events = {}
    BY <1>0 DEF TimersInv
  <2>3. ModePending' <=> ModePending
    BY <1>0, <2>1, SendFacts
  <2>4. ColorPending' <=> ColorPending
    BY <2>1, <2>2 DEF Send, ColorPending, OffSteps
  <2>5. rpc' \in OffSteps <=> rpc \in OffSteps
    BY <2>1 DEF Send, OffSteps
  <2> QED  BY <1>4, <2>3, <2>4, <2>5 DEF ws_set_period, driverVars, FrameInv
<1> QED  BY <1>1, <1>2, <1>3, <1>4 DEF Caller

(* A timer that ticks is one the mode needs, or is still to be stopped. *)
LEMMA FrameInterruptStep ==
  ASSUME LedInv, FrameInv, Interrupt
  PROVE  FrameInv'
<1>0. LedTypeOK /\ TimersInv
  BY DEF LedInv
<1>1. CASE FadeEnd
  <2>1. ModePending'
    BY <1>0, <1>1, SendFacts DEF FadeEnd, Bits
  <2> QED  BY <2>1 DEF FrameInv
<1>2. CASE BreatheTick \/ FadeTick \/ BlinkTick
  <2>1. /\ breathe_on \/ blink_on
        /\ UNCHANGED <<led_mode, events, e, rpc>>
    BY <1>2 DEF BreatheTick, FadeTick, BlinkTick
  <2>2. led_mode = "HOLDOFF" /\ ~ModePending => rpc \in OffSteps
    BY <1>0, <2>1 DEF TimersInv
  <2> QED  BY <2>1, <2>2 DEF FrameInv, ModePending
<1> QED  BY <1>1, <1>2 DEF Interrupt

LEMMA FrameThreadStep ==
  ASSUME LedInv, FrameInv, RgbThread
  PROVE  FrameInv'
<1>0. LedTypeOK /\ TimersInv
  BY DEF LedInv
<1>1. CASE Receive
  BY <1>0, <1>1 DEF Receive, RgbRuns, driverVars, callerVars, LedTypeOK, FrameInv,
     OffSteps, ModePending, ColorPending
<1>2. CASE HandleMode
  <2>1. CASE NoModeChange \/ HoldOffStop
    BY <2>1 DEF NoModeChange, HoldOffStop, RgbRuns, driverVars, callerVars,
       FrameInv, OffSteps, ModePending, ColorPending
  <2>2. CASE ModeDirection \/ ModeBlink \/ ModeHoldLight \/ ModeNone
    BY <2>2 DEF ModeDirection, ModeBlink, ModeHoldLight, ModeNone, FrameInv
  <2>3. CASE ModeLevel
    BY <1>0, <2>3 DEF ModeLevel, RgbRuns, TimersInv, FrameInv, ModePending
  <2>4. CASE ModeHoldOff
    BY <2>4 DEF ModeHoldOff, FrameInv, OffSteps
  <2>5. CASE HoldOff
    <3>1. rpc' \in OffSteps \/ led' = Black
      BY <2>5 DEF HoldOff, Show, OffSteps
    <3> QED  BY <3>1 DEF FrameInv
  <2> QED  BY <1>2, <2>1, <2>2, <2>3, <2>4, <2>5 DEF HandleMode
<1>3. CASE Period
  BY <1>3 DEF Period, RgbRuns, driverVars, callerVars, FrameInv, OffSteps,
     ModePending, ColorPending
<1>4. CASE ColorReset
  BY <1>4 DEF ColorReset, FrameInv, ColorPending
<1>5. CASE ColorBreathe \/ ColorBlink
  BY <1>5 DEF ColorBreathe, ColorBlink, FrameInv
<1>6. CASE ColorShow
  BY <1>6 DEF ColorShow, Show, callerVars, FrameInv, Full
<1> QED  BY <1>1, <1>2, <1>3, <1>4, <1>5, <1>6 DEF RgbThread, HandleColor

(* No frame of a breath, a fade or a blink is left on the LED by HOLDOFF,    *)
(* although the interrupt ticks between its steps, for any commands in any   *)
(* number and any brightness.                                                *)
THEOREM HoldOffLeavesNoFrameAlways == LedSpec => []HoldOffLeavesNoFrame
<1>1. LedInit => FrameInv
  BY DEF LedInit, FrameInv
<1>2. LedInv /\ FrameInv /\ [LedNext]_ledVars => FrameInv'
  <2>1. FrameInv /\ UNCHANGED ledVars => FrameInv'
    BY DEF ledVars, driverVars, callerVars, FrameInv, ModePending, ColorPending
  <2> QED  BY <2>1, FrameCallerStep, FrameInterruptStep, FrameThreadStep DEF LedNext
<1>3. LedInv /\ FrameInv => HoldOffLeavesNoFrame
  BY DEF LedInv, TimersInv, FrameInv, HoldOffLeavesNoFrame, Settled, OffSteps,
     ModePending, ColorPending
<1> QED  BY <1>1, <1>2, <1>3, LedInductive, PTL DEF LedSpec
=============================================================================
