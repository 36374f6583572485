------------------------------- MODULE LcdFlush -------------------------------
(***************************************************************************)
(* A frame on its way to the panel: LVGL renders one part of it after the  *)
(* other into two draw buffers, disp_flush (lv_port_disp.c) addresses the  *)
(* part on the panel and starts a DMA transfer of the buffer               *)
(* (bsp/LCD/spi_lcd.c), and the interrupt at the end of the transfer hands *)
(* the buffer back.  LVGL is a package outside the repository; its part    *)
(* here is what lv_port_disp.c relies on: it renders into the other        *)
(* buffer meanwhile, and waits for the flag before it flushes again.       *)
(*                                                                         *)
(* Rows stand for pixels, a row has one picture.  An overrun of the        *)
(* receiver, which nobody reads, is ignored by the HAL while it transmits, *)
(* and the other errors of the SPI cannot occur in this mode: what can     *)
(* fail is the transfer of the DMA.                                        *)
(***************************************************************************)
EXTENDS Integers

CONSTANTS
  Rows,       \* LCD_H
  BufLines,   \* DISP_BUFFER_LINES
  Pictures,   \* what a row may show
  Garbled,    \* what it shows when the bytes were not pixels
  MaxFaults   \* transfers that fail

ASSUME LcdAssumption ==
  /\ Rows \in Nat \ {0} /\ BufLines \in Nat \ {0}
  /\ Garbled \notin Pictures
  /\ MaxFaults \in Nat

VARIABLES
  at,                     \* where the lvgl thread is
  picture,                \* what the widgets look like
  todo,                   \* the rows of the frame not yet flushed
  part,                   \* the rows disp_flush was called with last
  drawn, buf_act,         \* buf_1 and buf_2, and which LVGL renders into
  flushing,               \* LVGL's flag, cleared by lv_disp_flush_ready
  State,                  \* of hspi1
  dma,                    \* the stream: its buffer, rows sent and to send
  bus,                    \* chip select, data or command, size of a word
  window, cursor, panel,  \* the controller of the panel, and what it shows
  faults

vars == <<at, picture, todo, part, drawn, buf_act, flushing, State, dma, bus,
          window, cursor, panel, faults>>

Row == 0..Rows - 1
Line == 0..BufLines - 1
Area == [y1 : Row, y2 : Row]
RowsOf(area) == area.y1..area.y2

(* Pixels go out as 16-bit data, commands and their parameters as bytes.     *)
Pixels == [cs |-> "LOW", dc |-> "HIGH", size |-> 16]

TypeOK ==
  /\ at \in {"idle", "render", "wait", "raset", "ramwr", "transmit"}
  /\ picture \in [Row -> Pictures]
  /\ todo \in [y1 : 0..Rows, y2 : Row]
  /\ part \in Area /\ window \in Area
  /\ drawn \in [{0, 1} -> [Line -> Pictures]]
  /\ buf_act \in {0, 1} /\ flushing \in {0, 1}
  /\ State \in {"READY", "BUSY_TX"}
  /\ dma \in [on : BOOLEAN, buf : {0, 1}, sent : 0..BufLines, size : 0..BufLines]
  /\ bus \in [cs : {"LOW", "HIGH"}, dc : {"LOW", "HIGH"}, size : {8, 16}]
  /\ cursor \in Row
  /\ panel \in [Row -> Pictures \cup {Garbled}]
  /\ faults \in 0..MaxFaults

(* After lv_port_disp_init the whole screen is to be drawn.                  *)
Init ==
  /\ at = "render"
  /\ picture \in [Row -> Pictures]
  /\ todo = [y1 |-> 0, y2 |-> Rows - 1]
  /\ part = [y1 |-> 0, y2 |-> 0] /\ window = part /\ cursor = 0
  /\ \E p \in Pictures : drawn = [b \in {0, 1} |-> [i \in Line |-> p]]
  /\ buf_act = 0 /\ flushing = 0
  /\ State = "READY"
  /\ dma = [on |-> FALSE, buf |-> 0, sent |-> 0, size |-> 0]
  /\ bus = [cs |-> "HIGH", dc |-> "LOW", size |-> 8]
  /\ panel = [r \in Row |-> Garbled]
  /\ faults = 0

-----------------------------------------------------------------------------
(* LVGL.                                                                     *)

(* The widgets change, and with them the rows of the next frame.             *)
Invalidate ==
  /\ at = "idle"
  /\ \E area \in Area, p \in Pictures :
       /\ area.y1 <= area.y2
       /\ todo' = area
       /\ picture' = [r \in Row |-> IF r \in RowsOf(area) THEN p ELSE picture[r]]
  /\ at' = "render"
  /\ UNCHANGED <<part, drawn, buf_act, flushing, State, dma, bus, window,
                 cursor, panel, faults>>

(* The rows that fit into one buffer.                                        *)
NextPart ==
  [y1 |-> todo.y1,
   y2 |-> IF todo.y1 + BufLines - 1 < todo.y2
            THEN todo.y1 + BufLines - 1 ELSE todo.y2]

Render ==
  /\ at = "render"
  /\ drawn' = [drawn EXCEPT ![buf_act] =
       [i \in Line |-> IF todo.y1 + i \in RowsOf(NextPart)
                         THEN picture[todo.y1 + i] ELSE @[i]]]
  /\ at' = "wait"
  /\ UNCHANGED <<picture, todo, part, buf_act, flushing, State, dma, bus,
                 window, cursor, panel, faults>>

(* LVGL waits for the flush before, and calls flush_cb.                      *)
Flush ==
  /\ at = "wait" /\ flushing = 0
  /\ flushing' = 1
  /\ part' = NextPart
  /\ todo' = [todo EXCEPT !.y1 = NextPart.y2 + 1]
  /\ at' = "raset"
  /\ UNCHANGED <<picture, drawn, buf_act, State, dma, bus, window, cursor,
                 panel, faults>>

-----------------------------------------------------------------------------
(* disp_flush, that is lcd_fill_array.                                       *)

(* The pins and the size of a word after lcd_write_cmd or lcd_write_data,    *)
(* which end with the chip select high.                                      *)
AfterByte(dc) == [cs |-> "HIGH", dc |-> dc, size |-> 8]

(* lcd_address_set: the area, then the command to write.                     *)
lcd_address_set ==
  /\ at = "raset"
  /\ window' = part
  /\ bus' = AfterByte("HIGH")
  /\ at' = "ramwr"
  /\ UNCHANGED <<picture, todo, part, drawn, buf_act, flushing, State, dma,
                 cursor, panel, faults>>

RamWrite ==
  /\ at = "ramwr"
  /\ cursor' = window.y1
  /\ bus' = AfterByte("LOW")
  /\ at' = "transmit"
  /\ UNCHANGED <<picture, todo, part, drawn, buf_act, flushing, State, dma,
                 window, panel, faults>>

(* The transfer is refused while another runs, and the caller does not look. *)
StartTransfer ==
  IF State = "READY"
    THEN /\ State' = "BUSY_TX"
         /\ dma' = [on |-> TRUE, buf |-> buf_act, sent |-> 0,
                    size |-> part.y2 - part.y1 + 1]
    ELSE UNCHANGED <<State, dma>>

(* LVGL takes the other buffer as soon as flush_cb returns.                  *)
Returned ==
  /\ buf_act' = 1 - buf_act
  /\ at' = IF todo.y1 <= todo.y2 THEN "render" ELSE "idle"

(* Mutant: the ready is given by disp_flush itself, as without DMA.          *)
lcd_fill_array_Ready ==
  /\ at = "transmit"
  /\ bus' = Pixels
  /\ StartTransfer
  /\ Returned
  /\ flushing' = 0
  /\ UNCHANGED <<picture, todo, part, drawn, window, cursor, panel, faults>>

(* Mutant: the words stay bytes.                                             *)
lcd_fill_array_Bytes ==
  /\ at = "transmit"
  /\ bus' = [Pixels EXCEPT !.size = 8]
  /\ StartTransfer
  /\ Returned
  /\ UNCHANGED <<picture, todo, part, drawn, flushing, window, cursor, panel,
                 faults>>

lcd_fill_array ==
  /\ at = "transmit"
  /\ bus' = Pixels
  /\ StartTransfer
  /\ Returned
  /\ UNCHANGED <<picture, todo, part, drawn, flushing, window, cursor, panel,
                 faults>>

-----------------------------------------------------------------------------
(* The DMA and its interrupts.                                               *)

(* One row is read from memory and written to the panel.                     *)
DmaRow ==
  /\ dma.on /\ dma.sent < dma.size
  /\ panel' = [panel EXCEPT ![cursor] =
       IF bus = Pixels THEN drawn[dma.buf][dma.sent] ELSE Garbled]
  /\ cursor' = IF cursor < window.y2 THEN cursor + 1 ELSE window.y1
  /\ dma' = [dma EXCEPT !.sent = @ + 1]
  /\ UNCHANGED <<at, picture, todo, part, drawn, buf_act, flushing, State, bus,
                 window, faults>>

(* Mutant: the handle stays busy, and the next transfer is refused.          *)
lcd_spi_dma_txcplt_callback_Busy ==
  /\ dma.on /\ dma.sent = dma.size
  /\ dma' = [dma EXCEPT !.on = FALSE]
  /\ flushing' = 0
  /\ bus' = [bus EXCEPT !.cs = "HIGH"]
  /\ UNCHANGED <<at, picture, todo, part, drawn, buf_act, State, window,
                 cursor, panel, faults>>

(* The end of the transfer: the handle is ready, LVGL is told so, and the    *)
(* chip is deselected.  The interrupt comes with the last word handed to the *)
(* SPI; that this word still is in its shift register is left out.           *)
lcd_spi_dma_txcplt_callback ==
  /\ dma.on /\ dma.sent = dma.size
  /\ dma' = [dma EXCEPT !.on = FALSE]
  /\ State' = "READY"
  /\ flushing' = 0
  /\ bus' = [bus EXCEPT !.cs = "HIGH"]
  /\ UNCHANGED <<at, picture, todo, part, drawn, buf_act, window, cursor,
                 panel, faults>>

(* A transfer error stops the stream; XferErrorCallback is NULL, so that the *)
(* handle stays busy and LVGL hears nothing.                                 *)
DmaError ==
  /\ dma.on /\ dma.sent < dma.size
  /\ faults < MaxFaults
  /\ faults' = faults + 1
  /\ dma' = [dma EXCEPT !.on = FALSE]
  /\ UNCHANGED <<at, picture, todo, part, drawn, buf_act, flushing, State, bus,
                 window, cursor, panel>>

-----------------------------------------------------------------------------
Thread == Render \/ Flush \/ lcd_address_set \/ RamWrite \/ lcd_fill_array
Stream == DmaRow \/ lcd_spi_dma_txcplt_callback

Next == Invalidate \/ Thread \/ Stream \/ DmaError

(* The lvgl thread and the stream go on; nobody has to change a widget.      *)
Spec == Init /\ [][Next]_vars /\ WF_vars(Thread) /\ WF_vars(Stream)

-----------------------------------------------------------------------------
(* Properties.                                                               *)

(* While pixels are on the bus the thread sends no command, changes neither  *)
(* pins nor word size, and renders into the other buffer.                    *)
QuietBus ==
  dma.on =>
    /\ bus = Pixels
    /\ at \in {"idle", "render", "wait"}
    /\ dma.buf # buf_act

(* What LVGL holds for flushed is on the panel: outside the rows it has      *)
(* still to draw and the part in flight, the panel shows the widgets.        *)
InFlight == IF flushing = 1 THEN RowsOf(part) ELSE {}

PanelShowsFrame ==
  \A r \in Row \ (RowsOf(todo) \cup InFlight) : panel[r] = picture[r]

(* Every frame ends, however the two threads of control overlap, unless a    *)
(* transfer failed.                                                          *)
FrameEnds == at # "idle" ~> at = "idle" \/ faults > 0

(* As the comment on disp_flush in lv_port_disp.c has it: what was flushed   *)
(* is in the end reported, after a failed transfer as well.                  *)
ReadyCalled == flushing = 1 ~> flushing = 0
=============================================================================
