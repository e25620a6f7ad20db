# rogue-mud: specification and verification

rogue-mud is a multi-user roguelike that people play over telnet. It is a C
program of one main thread, built for Linux (`platform/linux`) and for the
ESP32 (`platform/esp`). This directory specifies it in TLA+, checks the
specification with TLC on small instances, and proves the most important
invariants with TLAPS for every value of the constants. Paths below are
relative to the root of the repository's sources.

## The system

| Component | Code | State | Operations |
|---|---|---|---|
| Main loop | `platform/linux/src/main.c`, `platform/esp/main/main.c`, `src/game.c` | `game->running`, the phase of the iteration | start-up; `network_update`, `game_tick`, `render_clients`, `network_render_step` in this order, every 10 ms; `handle_signal`; shutdown |
| Client table | `src/network.c`, `src/client.c` | `server.clients[8]`: `connected`, `socket` | `accept_clients`/`push_client`, `client_recv`, `client_send`, `client_close`, `network_destroy` |
| Rendering to terminals | `src/client.c`, `src/network.c`, `src/display.c` | per client: `scanline`, `resized`, `Display`; the output buffer `server.buffer`, shared by all | `client_render`, `client_set_dirty`, `network_buffer_*`, `network_send` |
| Telnet input | `src/client_telnet.c` | per client: `in_buffer[64]`, `in_len`; the lexer | `client_telnet_receive` and the parser below it |
| Players' input | `src/game.c`, `src/player.c`, `include/gcd.h` | per player: buffered `action`, the actor's cooldown | `game_input`, `player_tick` |
| Actor pool | `src/actors.c` | `generation`, `alive`, `next_free`, `first_free`, `max_index` | `actors_push`, `actors_remove`, `actor_get`, `foreach_actor` |
| World | `src/actor.c`, `src/actor_tick.c`, `src/prefabs.c` | positions, `map.blocked`, the enemies' paths | `actor_create_opt`, `actor_try_move`, `enemy_tick` |
| Path finding | `src/pathfind.c` | the queue and visited list | `pathfind_2d` |
| Map generation | `src/map.c`, `src/game.c` | tiles, rooms | `map_generate`, `try_create_room`; where `game_init` puts everybody |
| Field of view | `src/fov.c`, `src/vision.c` | viewsheds | `fov_2d`, `viewshed_process` |
| Player log | `src/player.c` | a ring of entries | `player_log_begin`, `player_log_push` |
| Wifi set-up (ESP) | `platform/esp/main/wifi_setup.c` | retry counter, event bits | the event handler and `wifi_setup` |

**Interactions.** There is one thread. In each iteration the server accepts
every waiting connection, reads once from every client (the lexer calls
`game_input` for every key, which may call `client_close` in the middle of the
lexer's loop), lets the players and the enemies act, redraws the `Display` of
every client if a player could act, and sends each client as many rows as its
socket takes. Every socket is non-blocking. What it interleaves with is
outside: peers that connect, type, resize, hang up or die between any two
system calls, the network that splits what they send, and SIGINT.

**What is hard.** Four paths close a client (`'q'` inside the lexer's loop, a
failed `recv`, EPIPE in the middle of a frame or of the greeting, shutdown).
A FIN is never acted on; a dead peer is only noticed when its screen is
drawn. A frame takes many sends, each of which may be short or fail, while
newer frames and resizes start it over. One output buffer serves everybody,
and the colours a terminal is believed to have are cached across all that.
On the ESP the wifi events are handled by another task while `wifi_setup`
waits. Map generation and shadow casting are full of boundaries: off by one,
and a room opens into the void or light passes a wall.
Escape sequences may be split between reads. Actor handles may be kept after
their actor is gone. `PROJECT.json` lists these hazards with their lines.

## Modules

| Module | Models | Kind |
|---|---|---|
| `Sockets` | peers, TCP connections, descriptors and what `send`, `recv` and `accept` may return (outside the repository) | environment |
| `Clients` | the client table and rendering, with the colours of a row, on top of `Sockets` | component |
| `Server` | the main loop with its phases, the players' side of the game, SIGINT; composes `Clients` and `Sockets` | composition |
| `Sessions` | what a person who connects is promised: a seat of one's own, kept to the end, and no return | abstract |
| `ServerProps` | invariants, action properties and liveness of `Server`; the refinement of `Sessions` | properties |
| `ServerProofs` | `SocketsOwned`, `TypeCorrect`, `SoundConnectionsKept`, `ServerImplementsSessions`; `BufferOwned`, `RowsTrue`, `ColoursTrue`, `RenderNeverSpins` | proofs |
| `Registry` | what the actor pool promises: a handle is issued once and never resolves after its actor is removed | abstract |
| `Actors` | the actor pool, its free list, handles and the `foreach_actor` loop, with the properties | component |
| `ActorsProofs` | `TypeCorrect`, `FreeListCorrect`, `PoolImplementsRegistry`, `LoopVisitsCorrectly` | proofs |
| `Telnet` | the receive buffer and the lexer, byte by byte | component |
| `TelnetProps` | its properties | properties |
| `TelnetProofs` | `TypeCorrect`, `LexerAdvances`, `WholeMessagesDecoded`, `TerminalsDecoded`, `NoMoveInvented`, `TerminalsInventNoMove` | proofs |
| `Grid` | tiles, directions, distances and what it means for a stored path to lead somewhere | data |
| `Pathfind` | `pathfind_2d` as operators: costs, the sorted queue, one turn of the loop, the path read off | algorithm |
| `Search` | the same search as a process, on every map of a size, with its properties | component |
| `SearchProofs` | `TypeCorrect`, `QueueStaysSorted`, `PathCorrect`, `GivesUpRightly`; `StraightLinesSeen`, `LightDoesNotJump` | proofs |
| `Fov` | `fov_2d` as operators: octants, rows, beams between two slopes | algorithm |
| `FovProofs` | lemmas about them: the scan of a row, the shape of beams, what is lit from where; `SearchProofs` and `MapGenProofs` extend it | proofs |
| `MapGen` | `map_generate` and the starts `game_init` chooses, with the properties | component |
| `MapGenProofs` | `TypeCorrect`, `StartsOnFreeFloor`, `FloorConnected`, `RoomsLit` | proofs |
| `World` | players and enemies on the map, and `game_tick`: moves, `map.blocked`, stored paths, viewsheds; with the properties | component |
| `WorldProofs` | `TilesExclusive`, `PathsHangTogether`, `SightUpToDate`, `WorldTypes` | proofs |
| `Wifi` | `wifi_setup`, its event handler, the driver and the access point, `app_main` up to the game; with the properties | component |
| `WifiProofs` | `TypeCorrect`, `OneAttemptAtATime`, `GivesUpAfterAllRetries`, `SetupOutcomeTrue` | proofs |
| `MCServer`, `MCTelnet` | instances for TLC; `MCTelnet` holds the table of what terminals send | model checking |
| `MCWorld` | composes `World` with `Pathfind` and `Fov`: real paths and real sight | model checking |
| `MCSearch` | composes `Search` and `Fov` on every map of a size, with the properties of sight | model checking |
| `MCMapGen` | composes `MapGen` and `Fov`, with `RoomLit`: what is seen of a room from inside it | model checking |

### How `Server` corresponds to the code

Each action is one system call and everything the code does up to the next
one; peers, network and SIGINT may act in between. `phase` says which of the
loop's calls is running and `turn` which client its `for` loop has reached.

* `AcceptClient` is one turn of `accept_clients`: `accept`, `push_client` (the
  first free slot is zeroed), the telnet modes and the greeting. The three
  system calls are one action, since what can happen between them has the same
  outcome as if it had happened before or after; if a send returns EPIPE the
  client is closed again. `AcceptOverflow` is `push_client` without a free
  slot.
* `Recv` takes any number of the messages waiting (one `recv`, the lexer and
  `game_input` for each key). A message stands for what the lexer makes of the
  bytes: a direction, `'q'`, a size report, another key, or what is left of a
  message that was split. The module `Telnet` justifies this alphabet. Keys
  are ignored while the cooldown exceeds `GCD_MOVE` (`Listening`).
* `Tick` is `game_tick`: for every active player the cooldown runs down, and
  when it is over the buffered action is carried out and forgotten and the game
  is dirty. Whether a move succeeds depends on the map and is left open.
* `Render` is `render_clients`; `SendResized` and `SendRow` are the two parts
  of `client_render`, one send at a time.
* A `send` returns everything, a part (or EAGAIN), EPIPE or another error,
  depending on the connection; an RST is reported once as an error and as
  EPIPE ever after. A peer whose FIN has arrived answers data with an RST.
* `shown` is what a peer's terminal shows of the current `Display`: a set of
  rows. `RedrawAll` empties it, because all rows are out of date; a complete
  send adds a row; a resize on the user's side empties it and raises
  `disturbed` until the server has acted on the report.
* `RowColours` is `client_render_row` as far as colours go. `cached` is `fg` of
  `ClientTerminal` (`bg` is treated the same way in the code), which changes as
  the row is written and which nothing restores when the send comes out short.
  `pen` is the colour the user's terminal really writes in: it has received a
  part of the row. `stained` is a history variable: the rows in which a glyph
  ever came out in another colour than its own. A row may have any colours.
* `Sigint` may happen anywhere; before the game is allocated it ends in a crash
  (`game_exit` follows a null pointer), and before `game_init` it is lost.

The ESP build runs the same loop without a signal handler: its behaviours are
those of `Server` without `Sigint`.

### How `Actors` corresponds to the code

`generation`, `next_free`, `alive`, `first_free` and `max_index` are the fields
of `Actors` (32 bits); a handle carries a generation cut to 16 bits by
`uint16_t gen` in `actors_push`, which is `GenWidth`. When the generation no
longer fits, the handle returned is dead at birth and `actor_create_opt`'s
`actor_get` asserts: `Create` halts. `issued` keeps every handle ever
returned, and `Destroy` may be called with any of them. `BeginLoop` and
`NextLoop` are the `foreach_actor` macro; between two turns the loop's body may
create and destroy. The module is the interface of `actors.h` with whatever its
callers may do. The program of today does less: it creates at most 33 actors
and nothing calls `actor_destroy`, so that no slot is ever used again.

### How `Telnet` corresponds to the code

Each lexer function is an operator with the same name; it takes the buffer and
the number of bytes consumed and returns a result (`LexerResult`, the new
`head`, and the key or size recognised). `Recv` is one `recv` of what fits,
`Lex` one turn of `client_telnet_receive`'s loop, `Finish` what follows the
loop. `meant` records what the user pressed, `ends` where messages end in what
is still to be read, and `torn` whether a read ever ended elsewhere, for the
properties. `Keyboard(n)` is what may be sent n-th.

`Number` is `parse_number` with its `int`: the constant `INT_MAX` is the largest
one, and `Wrap` what is left of a larger number. The overflow is undefined in C;
the builds use no option that traps it or makes use of it, and it wraps.

### How `Pathfind` and `Search` correspond to the code

Lists are sequences, and an index 0 of the code is 1 here (so is the `prev` of
the first node). `Place` is where the loop that moves nodes up comes to a stop.
`h_cost` is what the macro `max` expands to inside `calculate_h_cost`: the cost
so far is added to the second branch of the conditional only. That is not the
"Estimated final cost of the path" that `src/pathfind.c:10` says it is: a node
further off along x than along y is given its distance, however much the path to
it has cost, which may be more. Paths therefore need not be shortest, and no
property says they are: `QueueSorted` is about the order by `h_cost` as it is. In `Search` a step is
the turn of the loop up to the calls of `try_add`, or one of these calls.

### How `World` corresponds to the code

A step is one call of `player_tick` or `actor_tick`; `game_tick` calls the
former for every player and the latter for every actor of the pool, which holds
the players first, and `turn` says how far it has come. Keys arrive between
two ticks (`Key` is `game_input`; who is connected is the business of
`Server`). `TryMove` is `actor_try_move` with the two writes to `map.blocked`.
`FollowPath` and `Wander` are the branches of `enemy_move`, after `Planned`,
which is `enemy_chase`: the path is planned again when it does not end where
the first player stands, and kept when the search fails. `LookAround` is
`viewshed_process` at the end of the actor's tick.

Two things are constants of `World`. `PathBetween` is the result of `pathfind_2d`, which
depends on the map only, since `path_cost` ignores actors; `PathAssumption`
says of it what `PathIsWalk` says of `Search`, and `MCWorld` gives it the paths
of `Pathfind`. `Sees` is `fov_2d` for an actor's range, and `MCWorld` gives it
what `Fov` shows. `skipped` is a history
variable: the steps an enemy has taken from its path and been refused since it
planned or moved.

`enemy_move` pops a step from the path whether or not it is then made. An enemy
whose way is barred by another actor thereby loses a step, and its next
one is a leap, over the actor if need be. `PathLeadsOn` says how far such a
leap can go.

### How `Fov` corresponds to the code

A slope is a fraction; the floats of the code compare as these fractions do for
the ranges in use. The code recurses: a wall inside a row splits off a beam,
which is cast to the end before the row goes on. Beams share no state, so
`CastLight` takes row after row, each with the set of its beams; `Pass` is one
turn of the inner loop, in the code's order of tests. The result is the set of
tiles `on_visible` is called with, which may lie beyond the map's high sides:
`OffLowSide` tests the low ones only, as the code does, and `vision_set_*` tests
the rest.

A beam whose right end lies left of its left one (`start < end`) is never cast
when split off, but may be what a row leaves of the beam it began with; the code
goes on with it. In such a beam a cell may fail both tests of `Pass`, and the
code's first one decides.

### How `MapGen` corresponds to the code

A step is one call of `try_create_room`: whatever size and place
`random_range` draws, discarded if it overlaps a room, else joined by a corridor
to the room before. `floor` is the set of tiles that are `TILE_FLOOR`. The
rooms include their walls, so walls of two rooms never coincide, but corridors
pass through rooms and their walls. `Start` is where `game_init` puts the
players (side by side in the first room) and the enemies.

### How `Wifi` corresponds to the code

Events are handled one at a time in the order they happened, by the event
loop's task; each branch of `event_handler` is an action. `WaitBits` is the
wait and the tests behind it; the bits are not cleared, so that both may be
set by the time `wifi_setup` runs. The driver is modelled from how the handler
relies on it: a connect ends in an association or a disconnect event, an
association may be given addresses and may be lost at any time. `losses` and
`hadIp` are history variables.

## What is checked

| Run | Question | Instance |
|---|---|---|
| `table` | Do descriptors and slots stay in step, is the shared buffer never mixed up, is a sound connection only closed when its user asks, and does the server keep the promises of `Sessions`? | 3 peers, 3 descriptors, 2 slots: more peers than slots, so that slots are reused and the table overflows; `'q'`, hang-ups, resets, a peer that is resized and reads slowly |
| `frames` | Is what a terminal shows above the scanline current and in its own colours, and is a slow client left after one failed send? | 2 peers that use one slot in turn, 2 rows of 2 cells in 2 colours, cooldowns (so that a frame may go on in the next iteration or be started over), resizes, congestion; slot 1 has no player |
| `live` | Does a client that keeps up see whole frames again and again however slow the others are? Does a dead client lose its slot, does SIGINT end the program? | 2 silent peers, one with a congested socket and one whose terminal is resized, 2 slots, 2 rows, fairness |
| `pool` | Is the free list exact, do loops visit everybody once, do stale handles stay dead? | 4 usable slots, 3 reuses each, generations that overflow |
| `telnet` | Are keys and sizes decoded as meant, however many one read holds? Does the lexer stay within what was read and always get on? Do split messages block a client or make up moves? | any of 16 messages, then one of 5 that are long or begin alike, then a move; read in pieces of any length into a buffer of 12 |
| `path` | Does the search end, is its path a walk, does it find one whenever there is one? What is seen along straight lines, and does light jump? | all maps of 3 x 3 tiles, all starts, targets and eyes |
| `map` | Do players and enemies start inside rooms and on different free tiles, does everybody get everywhere and nobody off the map, is all of a room seen from anywhere inside it? | all maps of 14 x 13 with up to 3 rooms of 5 or 6 tiles, every corridor, every tile inside a room as the eye |
| `world` | Do actors ever share a tile, do paths hang together, is sight current? | a map of 4 x 2 with two walls, 2 players, 2 enemies (who have room to block, chase and leap), real paths and real sight |
| `wifi` | Does the station try until it has given up, give up only after all retries, and is the outcome reported true? Does `wifi_setup` return? | 10 retries as in the code, up to 6 events waiting for the handler |
| `full`, `strangers`, `remainder` | three claims of the code that do not hold, see below | |

The bounds: two slots are the least for which clients can be confused with each
other; three peers for two slots let one peer follow another into a slot while
a third waits. Two rows are the least for which a frame can be half sent. One
message in flight per peer (`MaxInbox`) is enough for `frames` and `table`,
whose properties do not depend on how many keys a read holds; `Telnet` takes
up reads that hold several. Two cells and two colours are the least for which a
row can change its colour, and end in another one than it began with; the runs
that are not about colours set `DISPLAY_WIDTH` to 0.
Times are in units of the cooldown. The pool's runs reuse each slot up to the point where a generation overflows. Nine tiles
are enough for detours, dead ends, enclosed targets, loops, and for walls that
split a beam, whose halves go on for one more row. A map of 14 x 13 has
room for three rooms around a corner, so that a corridor may pass through a
room it does not join; rooms of 5 tiles are the least the
code's starts allow (the tile beside the centre would be a wall otherwise), and
of two sizes since an even and an odd one have their centres in different
places. In `telnet` the buffer of 12 holds two short messages and no two long
ones, so that every message is met by the remains of others. Six events let
losses and addresses pile up while the handler does not run. The runs of `MCTelnet` have an `int` of 16 bits, the least that C allows, since
TLC's own integers have 32, and one message has a number that overflows it; the
proofs are for every width of more than a byte.
In `world`
two enemies and a second player are enough for a path to be barred by somebody
who is not its target; a move costs an enemy twice the time step, so that
players and enemies move at different times.

`SYMMETRY` (peers that are never resized, descriptors and colours are each
interchangeable) is used in runs of safety properties only. `CHECK_DEADLOCK FALSE` is set because the program may
really stop: after shutdown or a failed assertion.

### Fairness

`FairSpec` of `Server` assumes that the main thread goes on (no call it makes
blocks, every socket being non-blocking) and that a closed peer's kernel
answers data with an RST, which TCP requires. Nothing is assumed of users,
signals or the network's speed. `FairSpec` of `Telnet` assumes that the main
loop goes round.

`FairSpec` of `Server` does not assume that a congested socket (`Congested`)
ever takes a whole frame, and `WholeScreenShown` promises nothing to its
client: the code gives no such guarantee, since each dirty tick starts the frame
over. To every other client it promises whole frames, whatever the congested ones
do. It says "unless the terminal has just been resized", because between the
resize and the report's arrival the server cannot know. `Search` assumes only
that the search goes on. `FairSpec` of `Wifi` assumes that both tasks are
scheduled and that the driver answers a connect, one way or the other; that an
address is ever given, or a link ever lost, is not assumed, and `SetupReturns`
therefore leaves out a station that stays associated without an address:
`wifi_setup` waits for it for ever (`portMAX_DELAY`).

### Claims of the code that do not hold

1. `push_client` asserts that a slot is free (`src/network.c:52`), but
   `accept_clients` accepts connections without limit: run `full`.
2. `actor_get` asserts that its handle is alive (`src/actors.c:50`), but
   `game_init` creates two players and eight clients may connect; the third is
   drawn with a handle that was never issued: run `strangers`.
3. `client_telnet_receive` means to keep a half-read message
   (`src/client_telnet.c:284`), but "unfinished" is only ever returned when
   everything has been consumed, and then the buffer is emptied: run
   `remainder`. The bytes that follow are taken for single keys.

The other runs take this behaviour as it is: `Server` crashes in 1 and 2 and
turns split messages into others as in 3.

Two comments are right only in part, and no property is made of them. "Any other
number is a tilde_terminated one" (`src/client_telnet.c:189`) leaves out numbers
that overflow to 0 or 1: with 32 bits, `ESC [ 4294967296 A` is an arrow, in the
program and in the model. No terminal sends them. And `h_cost` is not the
"Estimated final cost of the path" (`src/pathfind.c:10`), see above under
`Pathfind`.

## What is proved

With TLAPS, for every value of the constants that satisfies the modules'
assumptions. Every invariant and action property of the passing runs is
proved; what is left to TLC is named below under "Only model-checked".

**Table and sockets** (`ServerProofs`).

* `SocketsOwned`: `Spec => []SocketOwnership`. The inductive invariant is
  `TableInv`: the types of the four variables concerned and `SocketOwnership`
  itself. It is inductive because all closing paths go through `CloseClient`,
  which finds by the invariant the descriptor and the peer to release, and
  because `accept` returns a descriptor that is free and a connection nobody
  holds.
* `TypeCorrect`: `Spec => []TypeOK`, from `TypeInv`, which adds
  `SocketOwnership`: without it `CloseClient` might write to a peer that is not
  there, so types alone are not inductive.
* `SoundConnectionsKept`: `Spec => OpenPeerKept`, step by step from `TypeInv`.
  Lemma `Kinds` divides `Next` into nine kinds of steps, of which all but a few
  leave sockets and table alone (`QuietSteps`); the later proofs use both.
* `ServerImplementsSessions`: `Spec => ImplementsSessions`. Under the mapping, a
  peer's seat is the slot of the client that writes to its connection;
  `SocketOwnership` makes that a function (`SeatsAreRight`), and each step of the
  server then seats or unseats one peer, or several at shutdown, or nobody.

**Rendering** (the second half of `ServerProofs`).

* `BufferOwned` (`BufferForNobodyElse`) is inductive once types are known.
* `RowsTrue` (`RowsAboveScanline`) needs `BufferOwned`, since a send also sends
  what is left in the buffer, and `TableInv`, since two clients must not write
  to one terminal.
* `ColoursTrue` (`TrueColours`) needs nothing about the cache: the first cell of
  a row always sets its colour, and a cell that does not has the colour of the
  cell before. Of the cells shown in a wrong colour there would be a first
  (`CellsInTheirColour`).
* `RenderNeverSpins` (`NoBusySending`).

**Input** (`TelnetProofs`). `TypeCorrect` and `LexerAdvances`
(`LexerProgress`), for buffers of any size and all sequences of bytes. They
rest on one lemma for each lexer function (`NumberEnds`, `LetterSound`,
`TildeSound`, `CsiSound`, `Ss3Sound`, `EscapedSound`, `SimpleSound`,
`CommandSound`), which says with `Sound` that it consumes at least a byte and
none past the buffer, and returns nothing but key strokes and sizes;
`MessageSound` puts them together.

`KeysDecoded` is proved in two parts.

* `WholeMessagesDecoded`: for every keyboard that is `Decodable`, that is, whose
  messages are each decoded to what they mean when one begins at the lexer's
  head, stands in the buffer as a whole and is followed by nothing or by another
  message. The invariant `InOrder` keeps an account of all that was ever sent
  (`Recorded`): the messages, and marks of how many bytes and key strokes they
  are up to each; of these the lexer has decoded the first `d` and `recv` has
  returned the first `r` (`Accounted`). One message is what one turn of the loop
  decodes, so that nothing is kept back when the loop ends.
* `TerminalsDecoded` discharges `Decodable` for what terminals send: characters,
  xterm's sequences for all keys of the lexer's tables with and without
  modifiers, sequences that the tables do not know, and telnet's reports of
  sizes. There is a lemma for each family (`CharactersDecoded`,
  `LettersDecoded`, `TildesDecoded`, `ModifiedLettersDecoded`,
  `ModifiedTildesDecoded`, `SizeReportsDecoded`, `UnknownsDecoded`,
  `EscapeDecoded`). Two limits are the code's own: a size with a byte 255 is not
  decoded, since telnet doubles that byte, and an escape key followed in the
  same read by a `[` or `O` typed by itself is taken for the beginning of a
  sequence; the theorem excludes both by name. The messages of `MCTelnet` all
  belong to these families, but for the one with a number that overflows.

`SplitInventsNoMove` is about reads that end anywhere, and is proved in two
parts as well.

* `NoMoveInvented`: for every `Decodable` keyboard whose messages have `ESC [`
  at their start only (`EscapesStart`). The invariant `Traced` keeps the same
  account of what was sent, says where in it the buffer and the wire lie
  (`Pieces`), whatever has been dropped before, and that the directions pressed
  are copies of directions meant, in order and all of messages that lie before
  what has been handled (`Copied`). Two lemmas carry the step of the lexer.
  `StillOrArrow`: only `ESC [`, with or without `1 ;` and a number, and a letter
  is ever taken for a direction, so that nothing that has lost its beginning is.
  `ArrowElsewhere`: what the lexer takes for a direction in the buffer, it takes
  for the same direction wherever these bytes stand; so it may as well be called
  on all that was sent, at the place the bytes came from. A message begins there
  (`ArrowBegins`), and it is decoded to what it means.
* `TerminalsInventNoMove` discharges both hypotheses for the families above, with
  sizes below 6912 (256 * `ESC`) columns and rows. This bound is the code's: the
  report of 7003 x 16641 has the bytes `ESC [ A` in it, and if a read ends
  before them, what is before is dropped and they move the player (TLC finds
  this in six steps when such a report is added to `MCTelnet`). Below it no two
  bytes of a report are `ESC [`.

**Actor pool** (`ActorsProofs`), for pools of any size.

* `FreeListCorrect` (`FreeListExact`). The invariant `PoolInv` adds that living
  slots lie below `max_index` and that no handle's generation is ahead of its
  slot's.
* `PoolImplementsRegistry`: every creation issues a handle never issued before,
  every destruction revokes one, and nothing else changes which handles resolve.
* `LoopVisitsCorrectly` (`LoopVisitsEachOnce`) and `TypeCorrect`, from `LoopInv`:
  what has lived since the loop began still lives, and has been visited exactly
  if its slot is not past the cursor.

**World** (`WorldProofs`), for every map, any number of players and enemies and
any cooldowns: `TilesExclusive` (`OneActorPerTile`), `PathsHangTogether`
(`PathLeadsOn`), `SightUpToDate` (`SightCurrent`) and `WorldTypes` (`TypeOK`).
The invariant `WorldInv` is their conjunction: `TryMove` may only clear the tile
it leaves because nobody else stands there, and types need the tiles since a
path is only planned between free tiles. The lemmas on paths use
`PathAssumption` for a new path and the triangle inequality for a step that is
refused.

**Path finding** (`SearchProofs`), for maps of any size. The invariant
`SearchInv` says what the two lists are in the middle of a search: every tile is
in them at most once (`Once`), each node but the first was found from a
neighbour visited earlier (`Linked`), the queue is sorted (`Descending`), and
whatever lies next to a visited tile is in a list or still to be tried
(`Tried`).

* `QueueStaysSorted` (`QueueSorted`) is `Descending` and `Once`; that `Place`
  finds the right place is `PlaceFound`. It says in which order nodes are taken,
  not that the order is a good one.
* `GivesUpRightly` (`GivesUpOnlyIfCutOff`): with an empty queue, the tiles
  visited are the set that `Tried` makes closed.
* `PathCorrect` (`PathIsWalk`). `Linked` makes the links go back only, so that
  the recursion in `Trace` has a solution (`TraceUnfolds`), and the path is a
  walk by induction along the links (`TraceIsWalk`).
* `TypeCorrect`: `prev` is the index of a node visited before (`Linked`), and the
  two lists together are never longer than the map has tiles, since no tile is in
  them twice (`NoTileTwice`, `DistinctTilesBounded`).

**Field of view** (`FovProofs`, with the theorems in `SearchProofs` and
`MapGenProofs`), for maps of any size, all walls and eyes.

* The scan of a row is described by an invariant over the cells passed so far
  (`ScanInv`, summed up in `RowResult`): the cells visited are those between the
  ends the beam came with; what is left of the beam begins right of the last dark
  cell; and a beam is split off left of the first cell of each run of dark ones
  (`ShadowNarrows`, `ShadowSplits`).
* `BeamShape` says what the beams of a row can be, inductively from row to row
  (`ShapeKept`): the right end is that of the first beam or the left side of a
  cell of a row before; and either the ends are in order or the left end is the
  right side of a cell of a later row, which the right end just let pass. Order
  alone is not inductive, see above.
* `Predecessor`, `LightReaches`: a lit cell has beside it, in the row before, a
  transparent cell that was lit. The ranges in use enter here (`NoJump`): up to
  row 11 no two sides of cells lie so that a beam passes between the cells of a
  row and meets one in the next.
* `LitRectangle`, `LitDiagonal`: past transparent cells a beam remains that is
  wide enough, and it shows what comes next.

The theorems:

* `StraightLinesSeen` (`StraightSight`), for every range: what is seen has
  nothing before it, by following the predecessors of a cell, which on the middle
  and the diagonal of an octant stay there (`LineLit`); and what has nothing before
  it is seen by `LitRectangle` and `LitDiagonal` (`LineSeen`).
* `LightDoesNotJump` (`SightReaches`), for `FOV_RANGE <= 12`: prefabs.c and
  player.c give actors 6, 8 and 12. The hypothesis is needed. With 14, and walls
  only at two cells, straight ahead in row 2 and at `a = 2` in row 5, the cell
  `a = 4` of row 13 is shown and none around it in row 12.
* `RoomsLit` (`RoomLit`), for every range: between any tile inside a room and any
  other tile of it there is floor only (`WithinWalls`), whichever octant the tile is in
  (`InAnOctant`).

**Map generation** (`MapGenProofs`), for maps, rooms and numbers of rooms of any
size. `TypeCorrect` and `StartsOnFreeFloor` (`StartsFree`) rest on `MapInv`: the
rooms fit, have been dug, and lie apart, so that their centres differ.
`FloorConnected` (`AllReachable`) rests on `HangsTogether`: a part of the floor
that holds the first start and has no floor beside it is all of the floor. That
is inductive because a corridor, walked tile by tile (`IntervalFilled`,
`CorridorReached`), leads from the last room to the next wherever it passes.
`ReachableClosed` shows that what `Reachable` computes is such a part.

**Wifi** (`WifiProofs`), for any number of retries and waiting events:
`OneAttemptAtATime` (`TriesUntilGivenUp`), `GivesUpAfterAllRetries`
(`GivesUpLate`), `SetupOutcomeTrue` (`OutcomeTrue`) and `TypeCorrect`. The
invariant `IInv` says that the event which makes a resting station connect or
give up is the last that waits, that the counter holds the losses since the last address, and
which events and bits tell of an address.

**Induction.** The library's induction theorems cannot be instantiated with the
installed provers, but a set of natural numbers that is not empty has a least
element (`LeastNumber`, from `WellFoundedInduction`'s theorem on the
well-foundedness of `<`); the inductions above take the first cell, node or tile
that is wrong. The modules proved about write recursion as recursive functions,
over finite sets (`Reachable`), links that go back (`Trace`), or a row's cells
and the rows (`Fov`), whose existence is proved before they are unfolded.

The strengthened invariants (`LoopInv`, `SearchInv`, `MapInv`, `IInv` and the
others) were checked with TLC on the instances above before they were proved.

Assumptions: `SocketsAssumption`, `ClientsAssumption`, `ServerAssumption`,
`PropsAssumption`, `ActorsAssumption`, `GridAssumption`, `TelnetAssumption`,
`MapGenAssumption`, `WifiAssumption`, `WorldAssumption`, `SightAssumption`,
`PathAssumption` and `RangeAssumption` (a range is a natural number), all evaluated by TLC in the runs of the modules that extend
theirs. `TelnetAssumption` says that a key sends at least one byte, and that an `int`
has more bits than a byte.
`WorldAssumption` has the actors created on different free tiles, which
`StartsOnFreeFloor` proves of `game_init`; `PathAssumption` is what `PathCorrect`
proves of `Search`, and `SightAssumption` holds of `Fov` in `MCWorld`.

Only model-checked:

* liveness and anything under fairness (`WholeScreenShown`, `DeadPeerReaped`,
  `SigintStops`, `WireDrained`, `SearchEnds`, `SetupReturns`), which the prover
  cannot treat;
* the claims of the code that do not hold, which TLC refutes.

Two properties one might expect of sight do not hold and are not stated: it is
not symmetric (an enemy may see a player who does not see it), and it may grow
by a wall. Both were met while comparing `Fov` with the code on random maps; no
comment of the code claims otherwise.

## What is not modelled

* The player log. `player_init` is the only caller of `player_log_begin` and
  `player_log_push`: one entry and three short pushes. Neither the reuse of the
  oldest entry nor the truncation of a long one can be reached, so that their
  behaviour is not a behaviour of the program.
* Which glyphs a frame holds (`display_*`, `map_render`, the HP bar, the log),
  their CP437 to UTF-8 conversion, the wording of messages, and the capacity of
  the output buffer: a row is at most 80 glyphs of 3 bytes with two colour
  sequences each, and a position, far below 8192.
* Items: no code creates one. `actor_destroy` in the world: nothing calls it
  (`Actors` has it).
* `handle_client_char`, `handle_client_escaped_char` and
  `handle_telnet_command` in `src/network.c`, which nothing calls.
  `task_tcp.c`, whose task is empty. `tcp_server.c` of the ESP beyond what
  `Sockets` says of both platforms' calls.
* The pseudo-random generator; linear algebra beyond the operations in use; the
  build scripts and generated tables.
* Failures of `esp_wifi_connect` itself: the driver is assumed to take every
  call made while the station rests.

## Plan

1. Proofs: of `Fov` that it shows what straight lines reach, off the rows,
   columns and diagonals too.
2. How much longer than the shortest one a path can get with `h_cost` as it is.
3. `World` composed with `Server`: that a client's keys move its own actor, at
   any time and through both of them.
