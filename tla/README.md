# Verification of the Smart-Home firmware

This directory holds TLA+ modules that model parts of the Smart-Home firmware
(an STM32F103 board under RT-Thread 3.1.2), TLC configurations that check them
on small instances, and TLAPS proofs for every value of their constants. Line
numbers refer to the files of the repository; most of them are GBK encoded.

## The system and its parts

| Part | Code | State | Operations |
|---|---|---|---|
| Kernel mailboxes | `rt-thread/src/ipc.c`, `thread.c` | ring, `entry`, two offsets, two lists of suspended threads | `rt_mb_send(_wait)`, `rt_mb_recv`, resume, timeout |
| Reception from the modem | `applications/usart.c`, `bsp_timer.c` | `USART_RX2_BUF`, `USART_RX2_STA` (index and flag), TIM5 | `USART2_IRQHandler`, `TIM5_IRQHandler`, threads that write 0 or `memset` |
| GSM threads | `applications/main.c`, `bsp_gsm.c` | `GSM_sem_read`, `GSM_mq_send`, scheduler lock, heap blocks | `scm800c_init`, `GSM_thread`, `GSM_read_thread`, `GSM_send_thread`, `GSM_SendSMS` |
| Home control | `main.c`, `bsp_led.c`, `bsp_adc.c`, `beep.c`, `lcd.c` | mode, lamps, siren, readings, `POINT_COLOR`, LCD labels | touch, infrared, corridor, security and sensor threads, CGI handlers, RTC interrupt |
| Curtain | `main.c` 92-177, `24l01.c` | `IRDA_NRF2401_send`, `color_flag`, `curtain_status` | `NRF2401_thread`, `NRF24L01_TxPacket` |
| Infrared remote | `remote.c` | `RmtSta`, `RmtRec` | TIM4 callbacks, `Remote_Scan`, `IRDA_thread` |
| Clock | `rtc.c` | seconds counter, calendar, cached day, dialogue | `RTC_Set`, `RTC_Get`, `Set_Time`, second interrupt |
| Ethernet driver | `dm9000.c`, `ethernetif.c` | `dm9000lock`, pbufs, chip | `DM9000_SendPacket`, `DM9000_Receive_Packet`, polling thread |
| Network set-up | `lwip_comm.c`, lwIP's `dhcp.c`, `tcpip.c` | DHCP client, interface, `lwipdev` | `lwip_dhcp_task`, lwIP's thread and its timers |
| Web server | `httpd_cgi_ssi.c` | the home's state | CGI and SSI handlers |
| Block allocator | `malloc.c` | allocation table | not built |
| Drivers | `touch.c`, `lcd.c`, `dht11.c`, `24cxx.c`, ... | registers, pins | bus and pixel I/O |

How they interact. The modem's bytes arrive in an interrupt; silence of 30 ms
raises a flag. `GSM_thread` (priority 14) polls the flag every 10 ms and
releases a semaphore; `GSM_read_thread` (8) takes it, reads the short message
in a dialogue with the modem, changes the mode and mails an answer to
`GSM_send_thread` (16), which holds another dialogue with the scheduler locked.
`security_thread` (19) mails alarms to the same mailbox. All dialogues use one
buffer and one flag. A smaller number is the more urgent thread.

The mode, the corridor lamp, the siren and the LCD are shared by eight threads,
most of which lock the scheduler while they update them. The web server's
handlers run in lwIP's thread (1) and take no lock; the RTC interrupt draws the
time every second in the same global colour. `IRDA_thread` (4) and
`touch_thread` (5) mail curtain commands to `NRF2401_thread` (6). At start-up
`lwip_dhcp_task` (3) busy-waits for an address, so no thread of the home with
priority 4 or more runs until it has decided; it shares the chip with lwIP's
thread and the polling thread (2) under one semaphore.

What is hard here: interrupts that preempt each other while they share one
word; four threads that consume one flag; waits that busy-loop with the
scheduler locked; pointers that outlive their blocks; threads that return for
good after one time-out; a mailbox that drops mails when it is full; words that
a thread reads in pieces or changes by load and store while an interrupt writes
them; a sleep with the scheduler locked; a semaphore that one return forgets; an
interface that two threads write; statics that survive a dialogue.
`PROJECT.json` lists these hazards at their lines.

What makes each part correct. Mailbox: a bounded first-in first-out queue with
no lost wake-up. Reception: bytes stay in the buffer and a frame that has begun
is flagged. GSM: an answer reaches the thread that asked, memory is freed once,
the lock is released, mails are taken, announcements are acted on. Home control:
label and lamp agree, an alarm ends, the mode that is shown is the mode that
holds. Curtain: status and marks are what was transmitted. Remote: a decoded key
was pressed, and acts once. Clock: the calendar is that of the counter, and what
was dialled is what is shown. Ethernet driver: one owner of the chip, no pbuf
lost. Network: the task ends, and what it leaves behind stays as it is.

## The modules

* `MailFifo` is what a mailbox promises: a bounded queue. `RtMailbox` is the
  kernel's ring. One step is one stretch of code with interrupts disabled. A
  resumed thread is `woken` and tests again when it runs, as the two `while`
  loops do. `RtMailbox!RefinesFifo` says that the ring implements the queue.
* `FrameChannel` is what reception promises: `rx` is idle, receiving or complete
  and `text` is the set of frames that a search of the buffer would find. It
  allows frames to be torn and to overwrite each other, because they do.
  `Usart2` models the two interrupt handlers byte by byte; a byte is known only by its
  frame. TIM5's handler is two steps, because USART2 (priority 0) preempts TIM5
  (1) and a byte between the write of the flag and the stop of the timer makes a
  difference. `Usart2!RefinesChannel` connects the two.
* `Panel` is what the control panel promises: mode, lamp and what the LCD says of
  both change in one step, and it names the three cases in which the LCD promises
  less. `Home!House` reads mode and lamp as they will be once the threads that
  draw have drawn; `Home!RefinesPanel` connects the two.
* `ChipLock` is what the Ethernet driver's semaphore promises: one owner, and the
  chip goes round in the order in which it was asked for. `Net!Owner` finds the
  owner in what the threads do. That it can be lost (`dm9000.c` 398) is part of
  the promise.
* `WallClock` is a clock without a cache: the screen shows the date of the
  counter at the moment of reading, or, for a reading that is torn, of 65536
  seconds before. `Rtc!RefinesClock` says that the cache of `RTC_Get`, which
  keeps the date between readings, cannot be seen.
* `KeyLatch` is what a thread that waits for keys does: notice a code, wait for
  its end, obey it once. `Remote!RefinesLatch` says so of `IRDA_thread`,
  although it reads the decoder's words again and again while it waits.
* `Curtain` uses `MailFifo` again, as `Fifo`, and `Gsm` takes its reception from
  `FrameChannel`.
* `Gsm` models the GSM threads on top of `FrameChannel` and of the bounded
  queue. `pc[t]` is where a thread is; `CanRun` is the scheduler: the most urgent
  ready thread, or the one that holds the lock. A step is a stretch of code that
  nothing but an interrupt can cut, and in which no interrupt makes a
  difference. `naps` keeps the order in which the 10 ms sleeps end. A time-out of
  a busy wait may happen whenever the flag is not set. The five commands and the
  lines of text of `GSM_SendSMS` are a script (`Script`), and each is followed
  by the same wait. The mode is left to `Home`: short messages, the touch screen,
  the remote and the web server set it at any time, so an alarm that counts only
  in mode OUT may be mailed at any time. `pending` and `unread` (in `Usart2`) are history variables
  for two of the properties.
* `Home` models the control panel. A drawing is two steps, the choice of
  `POINT_COLOR` (with the change of lamp or mode that precedes it in the code)
  and `LCD_ShowString`, because the RTC interrupt and, without the lock, a more
  urgent thread may come between. `job[t]` is the label that thread `t` is about
  to draw. `CanRun` is the scheduler. The sensors are inputs. `RED_LED` is left
  out: it is the lamp of two rooms, part of the alarm, and toggled by every byte
  of the modem, so nothing holds of it.
* `Curtain` models `NRF2401_thread` and its mailbox. `suspended` is what
  `rt_thread_mdelay` does under the lock: the kernel marks the thread and starts
  its timer, but the thread runs on until `rt_exit_critical`. A failed
  transmission may or may not have reached the curtain (`doubt`). The clock's
  interrupt may set the colour between any two steps, also under the lock
  (`clock_demo`); `hit` remembers that it did so before K/T was drawn.
* `Remote` models TIM4's callbacks, one step per edge or overflow, against
  `Remote_Scan`, one step per memory access: the firmware is built without
  optimisation, so `RmtRec` is read four times and `RmtSta` is changed by a load
  and a store. Widths of pulses are those of the NEC code, and the first edge of
  a frame may find any count in the timer.
* `Net` models the driver's two operations with every return, the polling
  thread, lwIP's thread with its DHCP client, and `lwip_dhcp_task`. A step of
  lwIP's thread ends where it must wait for the chip; `todo` is the rest of the
  handler. A bad frame takes a pbuf in one step and gives it back in the next, with
  the semaphore kept. Frames come without limit. The two times of a lease run from
  the first binding on (`leased`), also after the lease is lost, as they do in
  `dhcp_coarse_tmr`; before it they start at 0 and run round from there in 45 days,
  which is left out.
* `Rtc` models the counter as day and second, `RTC_Get` with its cache and a
  reading torn between CNTH and CNTL, `RTC_Set` (which refuses years outside
  1970 to 2099), loss of power, and the dialogue touch by touch. `typed` is what
  the user means, and `want` what was set, until time passes. The counter is
  followed through the days of `CounterDays`: not on 1 January 1970, which the
  cache takes for a day that it knows, and not on the last day, 7 February 2106,
  on which it returns to 0. What the loops of `RTC_Get` and `RTC_Set` compute
  (`Computed`, `DayNumber`) is related by `CalendarAssumption`.
* The `MC` modules instantiate them for TLC; `RtMailbox_proofs`,
  `Usart2_proofs`, `Gsm_proofs`, `Curtain_proofs`, `Net_proofs`, `Home_proofs`,
  `Rtc_proofs` and `Remote_proofs` hold the proofs.

Definitions whose comment begins with "Faulty variant" are used by no
specification. Each one is a definition with a plausible error, and replacing
the definition by it breaks the property named in `PROJECT.json`.

## What TLC checks

| Run | Shows | Bounds and why they are enough |
|---|---|---|
| `mailbox` | `TypeOK`, `NoLostWakeup`, `RefinesFifo`, `MailMoves` | 3 threads (one asleep, one woken, one that steals), 2 mails, ring of 2: full, empty and wrapped |
| `usart` | `TypeOK`, `StoreInBounds`, `PartialTimed`, `FrameFlagged`, `RefinesChannel` | 4 bytes, 3 frames: fitting, filling, wrapping, and text left behind |
| `gsm` | `TypeOK`, `DialogueExclusive`, `HeapOwned`, `OneToken`, `LockReleased`, `MailTaken` | 2 places of the SIM (one ordinary, one that triggers the deletion), 1 alarm at any time, a mailbox of 1 so that mails are dropped, 1 block: no two threads have one at a time, and a pointer that outlives its block points to the other thread's; a semaphore that counts to 2 and wraps, 1 frame in flight (`MaxAir`) |
| `home` | `TypeOK`, `ModeShown`, `RefinesPanel`, `LabelColour`, `OneLateAlarm`, `SirenStops`, `LampGoesOut` | the system has no parameters: all threads, both modes |
| `remote` | `TypeOK`, `KeyGenuine`, `OncePerPress`, `KeyWaitEnds` | the six real codes of 8 bits, of which two are pressed, 2 presses, one repeat or lost pulse (`MaxEvents`), silence after 1 overflow instead of 14: two frames suffice for a torn reading, since a scan is shorter than a frame, and the count of overflows is only compared with its limit; see below for more pulses missed |
| `curtain` | `TypeOK`, `MarkShown`, `StatusTold`, `SuspendedOffCpu`, `BoxDrains` | a mailbox of 2: empty, full and between |
| `net` | `TypeOK`, `LockHeld`, `PbufsAccounted`, `OffStaysOff`, `AddressSettled`, `DhcpDecides` | 2 pbufs so that the pool runs empty, mailbox of 1, `MaxTries` as in the code (4), any number of frames of every kind; `tries` counted to 9, the largest value that any test looks for |
| `rtc` | `TypeOK`, `CalendarRight`, `SetShown` | the counter starts on 2 January, 28 February, 1 March or 31 December of every year from 1970 to 2099, at the first or the last second; 4 touches over one or two dialogues, one of them in 2100, a year that `RTC_Set` refuses; 4 digits; one span of time: a second, 19915 seconds (which brings the counter from the time of the first configuration to the wrap of CNTL) or a day |
| `usart_race` | violates `UnreadReported` | as `usart` |
| `gsm_announce` | violates `AnnouncementKept` | as `gsm` |
| `gsm_loop` | violates `LoopEnds` | as `gsm` |
| `net_server` | violates `DhcpGivesUp` | as `net` |

The violations are behaviours of the code that disagree with its comments:

* A byte between `bsp_timer.c` 44 and 46 takes the flag back and has its timer
  stopped. Its frame stays unreported until the next byte arrives.
* Two announcements in one burst: acting on the first clears the buffer
  (`main.c` 267), and the second message is never read.
* After `AT+CMGD=1,4` the code looks at the same buffer again (`main.c` 259).
  An announcement of place 99 that stands behind other text is not overwritten
  by the answers, and the thread loops for as long as the modem answers.
* The limit of tries (`lwip_comm.h` 20) is compared with a counter that
  `dhcp_set_state` resets (`dhcp.c` 1255). A server that offers and then
  refuses the request keeps the task in its loop, and with it every thread of the
  home from the start.

`mailbox` does not check for deadlock: a mailbox where every thread waits for
ever is a legal state. Nor do `net`, where everybody waits once the semaphore is
lost at `dm9000.c` 398, and `rtc`, whose touches and spans of time are bounded.
The other passing runs do.

Fairness. `RtMailbox`: a resumed thread runs at last. `Usart2`: TIM5's handler
starts and ends; the modem does not send without a pause of 30 ms for ever. `Gsm`:
sleeps end, silence is noticed, `main` runs; the three threads run at last if
they can run again and again (strong fairness), because the more urgent ones
sleep between their passes. Nothing is assumed of the modem, so every result
holds for a modem that is switched off.
`Home`: what runs with the scheduler locked goes on and the user leaves the
dialogue; sleeps end, and less urgent threads run at last because each pass of
the others contains a sleep of 5 ms or more. `Remote`: frames end, the timer
counts, the thread runs. `Curtain`: keys and screen are let go, timers end, and
the transmitter answers (the loop at `24l01.c` 128 has no time-out). `Net`: each
thread that has the processor goes on, timers end, the chip finishes a packet
(`dm9000.c` 362 has no time-out either), and the traffic pauses again and again;
nothing is assumed of a DHCP server. `DhcpDecides` excepts the lost semaphore,
the endless loop of `dm9000.c` 423, and servers whose offers the client accepts
again and again for ever; `net_server` shows that the last is needed. What
remains is the code's doing: a silent server, one that answers and falls silent,
conflicts, renewals and refusals without further offers all let the task end.
`MailTaken` excepts a reader that gets to delete all messages, which is the
endless loop of `gsm_loop`.

## What is proved

The theorems hold for every value of the constants under the assumptions named
in the modules: a ring of at least one slot and finitely many threads; a buffer
of at least one byte, no longer than the value of the flag bit; places of the
SIM that are positive, a mailbox of at least one mail, `NULL` not a block; keys
whose codes end in the bits 10 (`KeysAssumption`); a counter that starts on a day
of `CounterDays`. `CalendarAssumption` is of another kind: it speaks of no
constant, only of the finitely many days and dates, and TLC evaluates all of it
in the run `rtc`.

* `RtMailbox_proofs`: `TypeOK`, `NoLostWakeup` and `RefinesFifo`. `NoLostWakeup`
  is not inductive: that a resume adds one to the number of woken threads needs
  the lists to hold distinct, sleeping threads in the right call (`WaitersOK`).
  The refinement needs the offsets to stay `entry` apart (`RingOK`).
* `Usart2_proofs`: `TypeOK`, `StoreInBounds`, `PartialTimed` and
  `RefinesChannel`. The invariant adds what is known in each phase of TIM5's
  handler (`Handler`): the timer runs until the handler stops it, and the state
  word is the flag until a byte hits the handler and resets it to 0.
* `Gsm_proofs`: `TypeOK`, `DialogueExclusive`, `HeapOwned` and `OneToken`. The
  invariant (`Control`) says that the scheduler is locked exactly while
  `GSM_SendSMS` runs, and that the reader then holds no dialogue (`Turns`), that
  `naps` lists the threads that rest (`Resting`), and that a waiting token is for
  a reader that wakes before the poller looks again (`Token`). With it come four
  facts about steps. Every step of `Gsm` is a step of `FrameChannel` or leaves
  reception alone (`UsesChannel`), so what `Usart2` implements is all that the
  threads rely on. Nobody takes an answer while another thread waits for it
  (`AnswerNotTaken`). Mails are taken in the order in which they were posted, and
  a full mailbox changes nothing (`MailsInOrder`). Only the thread that got a
  block gives it back (`FreedByOwner`, from `HandsFree`: who asks for a block has
  none).
* `Curtain_proofs`: `TypeOK`, `MarkShown`, `StatusTold` and `SuspendedOffCpu`,
  for every size of the mailbox. None of the last three says anything while the
  thread holds the lock, so the invariant says what each step inside has done so
  far: the lock is held exactly between `rt_enter_critical` and
  `rt_exit_critical` (`LockInv`), the colour of K/T is chosen before it is drawn
  and the interrupt, if it comes between (`hit`), can only turn it red (`MarkInv`),
  and an acknowledged command
  is the curtain's state before it becomes `curtain_status` (`ToldInv`).
  `RefinesFifo`: each step is one of a bounded queue or a stutter.
  `LockedWork`: the transmitter, `curtain_status` and the mark of K/T are
  changed by one thread, which holds the scheduler's lock when it does so.
* `Net_proofs`: `TypeOK`, `LockHeld`, `PbufsAccounted`, `OffStaysOff` and
  `AddressSettled`, for every size of the pool and of the mailbox, any number of
  frames and every limit of tries. That `rt_sem_release` makes its first waiter the only owner
  needs the waiters to be distinct threads, each of which waits (`Queue`); that no
  pbuf is overwritten needs to know that lwIP's thread has none when idle and that
  the polling thread has one exactly while it delivers (`Hands`). The last two
  properties speak of the end of `lwip_dhcp_task` only. They need to know that
  lwIP's thread has a rest of a handler only while it sends, and that after
  `dhcp_stop` it can have one only if it waits for the lost semaphore (`Handler`,
  which rests on `Waits`: whoever waits is in the queue). `AddressSettled` follows
  from it: with the client off and no rest of a handler under way, no step of lwIP's
  thread touches the interface (`OffLeavesNetif`). `RefinesLock`: with
  `Exclusive` and `Queue`, the count of the semaphore and its queue of suspended
  threads implement `ChipLock`, including the release that hands the chip over
  without raising the count.
* `Home_proofs`: `TypeOK`, `ModeShown`, `OnMeansLit`, `LabelColour` and
  `OneLateAlarm`. The three about labels are silent while somebody draws, so the
  invariant says what a thread that draws has in hand (`InHand`) and why it is
  not disturbed (`Exclusive`, a theorem of its own): it holds the scheduler's
  lock, or it is the web server, whom no other thread interrupts. The sensor thread
  can be interrupted, but its label shows none of this state. `OneLateAlarm`
  needs that a thread that still has the mode OUT in hand after HOME was set
  has not raised an alarm yet (`FirstAlarm`). `RefinesPanel` is the strongest of
  them: two steps of the code, the change and its label, are one step of `Panel`,
  whoever runs between them, because whoever could disturb them has nothing in
  hand. `OnMeansLit` (ON on the LCD means that the lamp is lit, outside the
  dialogue) is the state invariant that goes with it; it stays a theorem, and the
  run checks `RefinesPanel`.
* `Rtc_proofs`: `TypeOK`, `CalendarRight` and `SetShown`, for every day, every
  span of time and any number of touches, restarts and torn readings. The
  invariant keeps, beside the reading, that the cached date is always the one of
  `daycnt` (`CounterInv`), whatever day the counter has moved to while the
  interrupt was off; and that, as long as it is clear what the user means,
  `Set_time` is that and `set_value` what was dialled for the field that
  flashes, although both outlive a dialogue (`DialogueInv`). That the two loops
  and the weekday formula agree with the Julian day number is
  `CalendarAssumption`. `RefinesClock` needs that the screen is blank exactly until
  the board has started (`BlankInv`), that the cached date is the one of the day
  that was read, and that a reading torn at the wrap of CNTL is the reading of
  an earlier second of the same day or of the day before (`TornSecond`).
* `Remote_proofs`: `TypeOK` and `RefinesLatch`, for bytes of any width and any
  number of presses and pulses missed. `TypeOK` is not inductive: that a pulse
  that ends has a width needs that none begins once the frame is over (`Pending`). The refinement needs
  to know which of its words the thread has in use at each place of `Remote_Scan`
  and of the loop around it (`PhaseInv`): a scan that waits for the end of a code
  goes through the same places as one that looks for a code.

The refinements and step properties of this list that no row of the table above names
(`RefinesLock`, `RefinesClock`, `RefinesLatch`, `Curtain!RefinesFifo`,
`LockedWork`, `UsesChannel`, `AnswerNotTaken`, `MailsInOrder`, `FreedByOwner`)
are theorems only. TLC agreed with each of them on the instances above before
it was proved, and finds `RefinesLock` violated when the last waiter gets the
semaphore, `Curtain!RefinesFifo` when a full mailbox forgets its oldest mail,
`RefinesClock` when the date is computed only on a later day (`DateForward`), and
`AnswerNotTaken` when `GSM_SendSMS` does not lock (`SendBeginsUnlocked`).
The runs do not repeat them.

Only model-checked: the liveness properties (`MailMoves`, `FrameFlagged`,
`LockReleased`, `MailTaken`, `SirenStops`, `LampGoesOut`, `KeyWaitEnds`,
`BoxDrains`, `DhcpDecides`), because the prover does not handle fairness; the
violations; what the loops of the calendar compute, which would need induction
over a recursive function; and `KeyGenuine` and `OncePerPress` of `Remote`.

The last two are no theorems, because they are false for some values of the
constants. With bytes of 3 bits and three presses a torn reading makes a key that
nobody pressed, without any lost pulse: it is the length of the codes that
prevents it, and TLC finds no such reading of the real codes in four presses
without losses, nor in two with two repeats or lost pulses (`MaxEvents` = 2).
With three of them it finds one, since a frame carries one complement for the address
and one for the key, and a register that has kept bits of an earlier frame can
satisfy both. `OncePerPress` fails for bytes of 2 bits, three presses and five
repeats or lost pulses. So both say what this decoder achieves with these codes
against a pulse or two that is missed, and are no promise against any number.

## Observations

Behaviours that the models show, that no property forbids and that a reader of
the code should know:

* `GSM_SendSMS` returns at `bsp_gsm.c` 158 without freeing its 256 bytes, unlike
  every other return and the comment at 511 (`SendUnavailable`). Without memory
  `GSM_read_thread` returns for good (`main.c` 227).
* After LEFT or RIGHT K/T is to be black again (`main.c` 117). The lock does not
  keep the clock's interrupt out: between `main.c` 119 and 120 it leaves the colour
  red (`rtc.c` 304), and K/T is drawn in it with the flag cleared. `MarkShown`
  says that nothing else leaves K/T red.
* In mode OUT the corridor line says OFF, and the lamp stays lit (`main.c`
  618-627), although the comments speak of switching it off. `OnMeansLit` is
  therefore one-sided.
* `Draw_window` writes Home after the time was set, whatever the mode is
  (`lcd.c` 2046). Touching a field of the dialogue toggles the corridor lamp.
* An edge that follows a frame without a leader may be taken for a leader and
  replay the last key. A store to `RmtSta` can undo what the interrupt did and
  lose a press. Torn readings are harmless for the codes that the firmware knows,
  because all of them end in the bits 10.
* When the first byte of a frame is neither 0 nor 1 the chip is to be reset
  (`dm9000.c` 370). The code returns at 398 with the semaphore taken, and who asks
  for it next waits for ever.
* A frame of odd length that finds no pbuf is drained in steps of two until
  its length is 0, which never happens (`dm9000.c` 423). As after the lost semaphore,
  lwIP and the polling thread then wait for ever, and if the DHCP task is still
  polling, so does the whole home.
* After a NAK or a release lwIP takes the interface down; the static fallback
  (`lwip_comm.c` 280) writes an address to it and never brings it up. Between the
  look of `lwip_dhcp_task` at the address (250) and its `dhcp_stop` (292) a NAK to a
  renewal takes the address away, or a lease replaces the static one: `lwipdev.ip`
  (`lwip_comm.h` 27) is then not the address of the board. `dhcp_stop`
  also means that a lease is never renewed.
* The field that flashes and the digits dialled so far are static in `Set_Time`
  (`rtc.c` 344, 347), so only the first dialogue starts with the year, as the
  comment at 343 says; `SetShown` speaks of fields that were touched first. A month
  that was touched and not dialled is 0, and `RTC_Set` adds up what lies behind
  `mon_table` (151). 60 is accepted for minutes and
  seconds; the weekday that is dialled is not used; weekdays are wrong from 2100.
  `RTC_Set` refuses a year from 2100 on, and `Set_Time` does not look at its
  result: the dialogue then ends as if the time had been set.

## What is not modelled, and why

Left out of the parts above: the text of messages and of the LCD; the time a
wait takes; the `sprintf` into arrays of one byte (`main.c` 210, `bsp_gsm.c`
127-129), the string `cmd_1A` without a terminator, and a buffer that is full and so
has no terminator: their effect depends on the memory layout.

Most of the repository is vendored: headers and drivers of the ST HAL and CMSIS
for some twenty chips, the file systems with their code pages, lwIP and
RT-Thread. Of some 900,000 lines the application has about 10,000, and much of
that is register and pixel I/O, fonts and copies. The map therefore covers a
small share of the lines, and nearly all control of the application.

* Block allocator: `malloc.c` is not in the build, and its callers stand under
  `#if 0`.
* Touch and LCD drivers, sensors, EEPROM, buses: timing of pins, with no state
  that two actors share, except the ones named above.
* Kernel demos: `main` starts none of them.
* SSI handlers: they format values that they read.
