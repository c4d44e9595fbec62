# slosh in TLA+

slosh is a terminal multiplexer: a server process owns the panes of a session
and composes them into a picture; any number of terminals attach to it over a
Unix socket, are sent that picture, and send back keys and clicks.  This
directory specifies the parts of it where order, failure and staleness decide
whether it works, checks them with TLC on small instances, and proves what
matters most about ten of them (the connection table, the delivery of frames,
images, cells, the trees of panes, the decoding of input, the life of a pane, its
status, the routing of keys, the configuration) with TLAPS for all instances.

## 1. Inventory

Everything below `src/src/` is one C process per session (the server), plus a
small client process per attached terminal and a command line that speaks the
same protocol.  There are no threads.  What makes the system hard is that one
poll loop serves many peers, each with a stale view of the others.

| component | state | operations | talks to | here |
|---|---|---|---|---|
| connection table and loop (`server.c`) | `conns[]`, `active_fd`, `activity_seq`, poll set, `detach_fds`, `reload_due` | accept, read, HELLO, RESIZE, INPUT, DETACH, CMD, ESC timeout, detach, reload, evict, shut down | every other part | `Server` |
| frame delivery (`server.c`) | `pending_paint`, a diffed view and an outbox per client | `request_paint`, `push_clients`, `push_display`, `conn_send`, `conn_flush` | screen, graphics, client | `Delivery`, `Mirror` |
| wire protocol (`proto.c`) | bytes received and not yet a message | `msg_reader_feed`, `msg_reader_next`, `msg_send` | server, client | in `Delivery`, `Server` |
| client (`client.c`) | its reader, the terminal's modes | relay both ways, report its size, leave | server, terminal | in `Delivery` |
| screen (`screen.c`) | cells now and as last painted, the cursor as last told, `force_full` | put, project, follow the cursor, render, resize | server, panes, chrome | `Screen` |
| graphics (`graphics.c`) | images sent, placements shown, deletions owed | begin, place, flush, commit, repaint | server, panes | `Graphics` |
| layout (`app_layout.c`) | tabs of trees of splits and leaves, focus, zoom, minimised and floating panes, weights | split, close, collapse, move, swap, resize, equalise, rotate, reap | app, panes | `Layout`, `Geometry`, `Session` |
| application (`app.c`, `app_ui.c`) | prefix and drag in progress, editor, search, picker, cheatsheet, toasts, clipboard, detach request | `app_event`, `run_action`, `app_tick`, reload | layout, panes, server | `Keys` |
| pane (`pane.c`, `pty.c`) | child process, pty, lib-vt terminal, status records, selection, search | pump, write, die, restart, resize, compose | kernel, lib-vt, app | `Pane` |
| program status (`osc5577.c`, `pane.c`) | scanner state, records by id | set, clear, drop at prompt or death, recompose | pane | `Status` |
| input parser (`input.c`) | buffered bytes, `in_paste` | feed, timeout | server, app | `Input` |
| configuration (`config.c`, `kdl.c`) | the configuration in force, its files, theme override | load, include, reload, wear a theme | app, server | `Config` |
| sessions and workspaces (`app_session.c`, `project.c`) | tabs tied to a project, layout files | apply, open, close, dump, save, check | layout | `Session` |
| control commands (`cmd.c`) | none of its own | about a hundred calls | app, server | in `Server`, `Session`, `Config` |
| shaders (`expr.c`, `shader.c`) | compiled programs | compile, run | chrome | no |
| chrome (`app_draw.c`) | the hit list of a frame | draw | screen | its traces in `Keys`, `Graphics` |

Behaviours that are hard to test, and where they bite, are listed under
`hazards` in PROJECT.json: an array compacted by moving its last entry while a
loop walks it against a poll set taken earlier; descriptors closed and handed
out again within a cycle; one shared application typed into by several clients;
a canvas sized by a client that leaves; frames refused by a full outbox after
the diff has already recorded them as shown; writes and reads cut anywhere,
through escape sequences and pastes; pixels whose arrival deletes placements;
deletions decided in a frame that never arrives; wide glyphs overwritten by
halves; trees of panes that are cut, joined and moved while drags, zooms and tab
positions still speak of them as they were; a program that is dead before it can
be waited for; records that outlive what they were about; overlays that own the
keyboard and are left by the mouse, by death or by a script; themes undone over
another configuration; a restart that must find everything where it was.

What makes each component correct:

* **table**: somebody is active exactly when somebody looks; the canvas is what
  the policy makes of those who look now; a half-done prefix is completed by
  whoever began it or nobody; a detach takes whoever asked; only who said HELLO
  displays; nobody starves.
* **delivery**: no terminal is sent what it cannot apply, none is left stale,
  memory for a client that does not read is bounded.
* **screen**: the terminal shows the client's part of the canvas.
* **graphics**: what is marked shown is shown, nothing is parked, an unchanged
  picture costs nothing.
* **layout**: every split has two children or more, parents and children agree,
  focus and zoom name leaves of their own tab, rearranging moves neither the
  view nor the other panes' order; every cell is somebody's.
* **input**: the events are those the person meant, wherever reads cut.
* **status**: what a pane shows is what its program last said and still holds.
* **pane**: no signal goes astray, nothing runs unseen, a death is noticed and
  its status is its own.
* **keys**: one overlay at a time, keys where they are aimed, Escape always out.
* **configuration**: the nearest word wins, a chosen theme stays, Escape undoes,
  what is saved is read.
* **sessions**: a restart loses nothing it can write, opening starts nothing and
  happens once, a declared name is kept.

## 2. The modules

| module | models | role |
|---|---|---|
| `Server` | `server_run`'s loop and the table (`server.c`) | detailed |
| `ServerProofs` | theorems about `Server` | for TLAPS |
| `Delivery` | a composed picture on its way to the terminals | detailed |
| `Mirror` | what an attached terminal is promised | abstract; `Delivery` implements it |
| `DeliveryProofs` | theorems about `Delivery`, `Mirror` among them | for TLAPS |
| `Graphics` | one client's kitty images | detailed, with the terminal |
| `GraphicsProofs` | theorems about `Graphics` | for TLAPS |
| `Screen` | one row of one client's cells | detailed, with the terminal |
| `ScreenProofs` | theorems about `Screen` | for TLAPS |
| `Layout` | tabs, trees of panes, focus, zoom, floats, drags (`app_layout.c`, `app.c`) | detailed |
| `LayoutProofs` | theorems about `Layout` | for TLAPS |
| `Geometry` | the division of a tab into rectangles (`app_layout.c`) | a function |
| `Session` | layout files, workspaces, restarts, sizes (`app_session.c`, `app_layout.c`); EXTENDS `Geometry` | detailed |
| `Input` | one client's input decoder and its timer (`input.c`) | detailed, with the terminal |
| `Status` | the OSC scanner and a pane's status records (`osc5577.c`, `pane.c`) | detailed, with the program |
| `StatusProofs` | theorems about `Status` | for TLAPS |
| `Pane` | a pane's process, terminal, death and re-run (`pane.c`, `pty.c`) | detailed, with the kernel |
| `TypingProofs` | theorems about `Input` and about `Pane` | for TLAPS |
| `Keys` | the routing of keys and clicks (`app.c`, `app_ui.c`) | detailed |
| `Config` | loading, themes, picker, watcher (`config.c`, `app.c`, `app_ui.c`, `server.c`) | detailed, with the files |
| `AppProofs` | theorems about `Keys` and about `Config` | for TLAPS |
| `MC*` | small instances of the above | for TLC |

### Server

`conns` is the array as a sequence of descriptors; the fields of a `conn_t` are
functions of the descriptor, reset when it is closed.  `mode`, `ci` and `dj` are
the place in the loop; `polled` and `ready` are the poll set.  Each action is
one step of `server_run`, in the loop's own order: `Poll` (with `accept`),
`ReadConn`, one action per message handled, `EscTimeout`, `DetachQueued`,
`Reload` and `Evict`, `Shutdown`.  A handler that loops over the array while
removing from it (`Displace`, `Evict`) takes one removal per step.  What
`apply_canvas`, `make_active`, `promote_latest`, `close_conn` and `drop_conn` do
are operators over the next state, so that a handler is written with the calls
it makes in the order it makes them.

Descriptors are reused: `Connect` may take any number the server has closed.
`file` is what the configuration file says; `None` is a file that does not
parse.  History variables record who greeted on the present connection, who was
asked to be detached this cycle, why a descriptor was closed, and (`forced`) that a
command has set the canvas since the policy last did: the control command `resize`
(cmd.c:191, 639) is given the canonical screen (`server.c:1032`) and resizes it with
displays attached, and no `apply_canvas` follows.  The canvas then is nobody's policy until
somebody attaches, leaves, changes size or becomes active, or a watched save is read.

Left out: a `resize` to nothing (its second form takes a zero as it stands), what the
application does with a key (only whether it begins, ends or
leaves a prefix or drag, or asks to detach), clipboard and toasts, the cell size
in pixels, painting (`Delivery`), the residual detach check at the end of a cycle
(no step of the loop between the handlers and it raises one).  Also left out: a
session with neither a watcher nor a pane alive, where nothing follows the
connections in the poll set and `server.c:914` compares a connection accepted in
this cycle with an entry nobody wrote.

### Delivery and Mirror

Pictures are numbered.  A frame says what it changes and into what, or is a full
one; it travels as `FrameLen` units, which writes and reads cut anywhere.
`Paint` is `push_clients`: it renders every view (`prev` takes the new picture
whatever becomes of the frame, as `screen_render` does), queues each frame or has
it refused, and flushes.  `Mirror` is the promise: a terminal never goes back to
an older picture and comes to show the last; `Delivery` maps to it by
`latest <- picture, shown <- term`.

### Screen

One row, because rows never interact.  A cell is a glyph and its width, 1, 2 for
a head or 0 for a tail; text, colours and links are one value, as they are to the
diff.  The terminal's rule is modelled too: painting over half of a wide glyph
empties the other half.  `Push` is `push_display`: follow the cursor, project,
stamp the indicator, diff, and either send or be refused.  `sound` remembers
that every frame since the last full one consisted of whole glyphs; without it
the property does not hold (`NoHole` below).

One thing the model shows and no run reports: when the cursor is hidden on an
otherwise unchanged frame, `screen_render` records it as told (screen.c:512) but
emits nothing (line 508 emits only when something was painted), so the terminal
goes on showing it until a cell is next painted.  `Caret` says so.

### Graphics

`imgs`, `places`, `dead`, `txed`, `placed` are the fields of `graphics_t`; `draft`
is what the terminal would hold if the frame under construction reached it, and
`terminal` is what it does hold.  `Begin`, `Place` (once for each visible piece, in
any order), `Flush`, then `Deliver` or `Drop`; a `Begin` straight after a `Flush`
is the frame nobody committed.  The terminal's rules are external: new pixels
drop an image's placements, a clear drops all placements and keeps the pixels.

### Layout

`app` is the part of `app_t` the trees live in: `tabs` and `cur` (a position),
each tab's `root`, `focus` (a pointer) and `zoom` (an id), and the nodes as
functions: `parent`, `kids`, `dir`, with `mini` and `floats` for the flags of a
leaf (`floats` in order of `raised`).  A verb is an operator from one `app` to
the next, built from those the code is built from: `Placed` (`place_beside`),
`Unhooked` (the surgery `close_leaf` and `detach_leaf` share), `Detached`,
`TabRemoved`, and `Laid` (`layout()`: land a float when nothing is tiled, restore
and raise the focused pane, drop a zoom that has lost its pane).  The actions are
the verbs with their refusals.  `Close` is both the verb and `app_reap`'s.

An id is free again once nothing names it, tabs' zooms and the drag included;
the code never reuses one, and a name that is still held is still told apart.
`drag` is a held title or border and whether it has moved; `strip` is what an
earlier drag left in `tab_target` and `new_tab_target`.  What a motion pointed at
is chosen when the release looks at it: any pane a motion could have seen, any
tab in the strip.  A verb given by a key comes
after `EndDrag`, as every keystroke does.

`Straying` names what the code is not ready for, so that the rest can be checked
without it: `drag`, a release in another tab than the press; `key`, a key that
ends a drag over the strip; `rerun`, re-running a pane of a tab that is not on
screen.  Each breaks a property (section 3).

Left out: sizes (they are `Geometry`'s and `Session`'s; that there is no room is a
choice here), a pane that cannot be started, building a tab from a layout file, and
anything after the last tab has gone.  Four observations the runs do not report:

* `app_rerun_pane` (app_layout.c:1798) and `swap_panes` do not look at tabs: by
  a script or a stray drag they leave a focus that is a leaf of another tab, what
  `focus_check` aborts on.
* `focus_dir` and `focus_next` in a zoomed tab move the keyboard to a pane that
  is not shown, which `app_toggle_zoom`'s comment calls "keys going somewhere
  invisible".
* `tab_remove` only clamps `cur`: when an earlier tab is closed, or its last
  program ends, the view moves to the next tab, as `move_tab`'s comment says of
  a position carried across a move.
* `ensure_tiled` looks before a focused pane is un-minimised, so for one pass a
  tab may show only a float over nothing.

### Geometry and Session

`Geometry` is the arrangement of a tab as a function of its tree, the terminal
and the settings, as in the code: `Shares` is `layout_node`'s division (floors
first, the rest by weight, the remainder to the first children), then the list a
tab becomes when it does not fit, zoom, floats and their clamping.

`Session` keeps `app` (tabs of trees by value, the panes they name, the
terminal's size), the files in `disk`, and `keep`, which is
`layout_keep_view`: a wish for the next `apply-layout` that a refused one leaves
behind.  A document is a tree of nodes `[p, kids]`; `Applied` is
`app_apply_layout` with its reader's order (panes are made as they are read, a
failure ends it and leaves the tabs before), `Dump` and `DumpProject` write,
`Complaints` is `layout_check`, `OpenWorkspace`, `SaveWorkspace` and `CloseWorkspace`
are `cmd.c`'s workspaces,
and the edits of sizes and floats are those of `app_layout.c` with its weights.
`Restart` is a dump, an exit and a start from the file.  `said`, `from` and `born`
are history: what was declared, which file a pane came from, which opening made
its tab.

A run plays *scenes*: a start, the operations allowed and a number of steps.
Everything at once would be too large, and scenes keep what can interact
together: sizes, floats, layouts that fail, projects and their files, names.

What the model shows and no property denies:

* `apply-layout` with `focus:false` and a text that does not parse leaves
  `layout_keep_view` set for the next one, though app_session.c:149 says it cannot
  leak.
* A layout that fails half way leaves its first tabs behind, neither sized nor
  made members of the workspace being opened.
* A project whose tabs all declare purposes of their own leaves no tab to find, and
  is opened again each time; a declared `project:` purpose is overwritten by
  adoption.  A purpose set from inside a pane comes back as declared after a
  restart.
* `layout_node`'s remainder goes to the children in order, not, as its comment
  says, to the largest first.  `transfer_weight`'s floor counts one minimum for
  each child, so a nudge beside a nested split can make the tab a list.
* A split that collapses into its last child loses its share; weights on tabs pass
  the checker and are ignored; minimised, zoomed and the order of floats are not
  dumped.
* A terminal of no more columns than two gaps has an area outside the screen.

Left out: telling programs their sizes, symbolic links in directories, and files
that cannot be written.

### Input

`wire` is what the terminal has written and nobody has read, `buf` and `in_paste`
the parser's state, `got` the events.  A byte is a token: what the decoder cannot
tell apart is one value.  `Reading` takes any non-empty part of the wire and is
`input_feed` to the end of what can be decided; `Timeout` is `input_timeout`, 40 ms
after the last byte, which is why it asks for an empty wire or (`Late`) for a paste
whose pieces came further apart.  `Gesture` is a person: any gesture, except
(without `Hasty`) within 40 ms of the Escape key, when ESC and what follows are
Alt by every terminal's convention.  The abstract specification is `Meant`, the
events of the gestures, in order.

An observation about `Hasty`: what follows an ESC is parsed by a temporary parser
(`input.c:417`), and the `in_paste` it sets goes with it.  A paste whose first bytes
are read together with an Escape, or within the 40 ms, therefore loses its
beginning, and its text comes as keys.  With `Hasty = TRUE` TLC finds this in four
steps (`PasteNeverTyped`); a letter in the place of the paste is alt+letter, as it
should be.  And one about `Late`: a timer that splits the marker at a paste's end drops what
there is of it and leaves `in_paste` set (`input.c:509`), so that what is typed next is still
taken for paste, until a marker comes whole.  `Decodes` promises nothing of the order of keys
and paste once a timer has cut a paste (`cut`), and so excuses it.

### Status

`pipe` is output nobody has read, `scan` the scanner of `osc5577.c`, `slot` the
records of a pane and what its frame shows.  The program writes whole sequences or
dies inside one; `Feed` reads any part; `EndOfFile`, `Restart` and a prompt drop
what they drop.  With `Echo`, every answer comes back as output.  The abstract
specification is `Held`: which of the reports in the stream are still true, said
without scanner or records.  Observations:

* In an unfinished OSC a second ESC returns the scanner to its ground state
  without being taken as the beginning of the next sequence: after `ESC ] ... ESC ESC ]`
  the following report or reset is lost.
* 5577's `busy` drops 7501's records and leaves their text on the line
  (`LineHasOwner`, section 3); the comment at pane.c:408 says that a 5577 status is
  cleared when the program exits, but its text stays.

### Pane

`present`, `alive`, `suspended`, `fd`, `pid`, `exit` are the fields of `pane_t` and
its pty; `proc`, `tty` and `code` are the kernel's: a process exits, its descriptors
close, only then can it be waited for, and a child it left may keep the terminal.
`Pump` at end of file is `pane_died` (the status first, if it is there, then the
terminal) and the note about it; `Rerun`, `FirstKey`, `Close` and `Reap` are the
ways on.  `Typing` keeps the line the shell edits, and where on it the cursor is, beside
`line_len`, the pane's estimate of it: a character is typed where the cursor is, a Backspace
takes those before it, other keys move it or cut on either side.  `astray` counts what the
estimate is misled about downwards: characters no key press made (a paste, a recalled
command), and Backspaces pressed with nothing before the cursor, which `pane.c:1079` counts
off all the same.  On such a line the estimate is too low, and Ctrl-D may type its word into
what is there.  The comment at pane.c:74 says that it is only ever too high; Home and
a Backspace are enough to refute it (`pane_home.cfg`), so `ExitOnEmptyLine` says how much may
be thrown away, and that it is nothing on a line neither happened to.  A line of more than
65535 characters, at which the estimate stops, is outside the bound (`MaxLine`).  A pane made suspended forks its program and hangs it up,
although pane.c:62 says it has run nothing.

### Keys

`app` is the part of `app_t` that decides who gets a key: prefix, drag, the label
editor and its subject, the search bar, the picker, the cheatsheet, focus and who
is alive; `painted` is the hit list of the last frame, from which the mouse is
routed until `Compose` paints another.  `Key`, `Paste`, `Press`, `Motion` and
`Release` are `app_event`'s branches in their order, `Dies` a pane's end,
`Cancelled` another client taking over.  `did` in `app` records what was seen from
outside.  Observations:

* The wheel arrives as a press, and but for the search bar every target takes it
  for a click, though app.c:1919 says that it is not one; a notch on a row of a
  palette that is closed and not yet painted away starts a search over an open one,
  and leaves the old pane lit (`over`).
* A paste goes to the program even while an overlay owns the keyboard.
* The prefix stays armed under an overlay opened by a double click; a key an
  overlay takes does not end a drag, though app.c:1839 says any keystroke does.
* Enter in the finder and the palette computes its rows anew.

### Config

`disk` is the files' text as far as it matters: whether a file parses, what it
includes, the theme it wears, which settings it names.  A setting's value is the
file that gave it, so `LoadInto` is the loader's whole order of precedence: includes
first, then the theme, then the file, then what is mixed from other settings.  `load_into`
calls itself, through includes and through themes, to a depth that it counts; `Loader` is
that recursion as a function from the levels that are left, each built from the one below.
`cfg` is the configuration in force, `override` the theme chosen at run time,
`picker` the open theme picker, which wears what it shows.  The watcher is inotify's:
`watched` has the files `watch_config` was given and the directories there were then, as only
those get a watch, and `heard` is the queue of names, filled by the kernel at a save in a
watched directory and compared with the watched names when it is taken up (`Drain`).
Reading the files (`WatchReload`), removing the watches (`Unwatch`) and setting them anew
(`Rewatch`) are three steps, between which the server does nothing else but a person may save;
a session starts after its first reading and before its first watch.  `Edit` is a person with
an editor, who makes the directory a file needs; directories, once made, stay.  Saving a theme
(`Keep`, `ThemeCommand`) writes the file from inside.  `news` and `settled` are history, for
what must be read in the end; `news.deaf` are the files nobody could have heard of, as they
were saved in one of those gaps or with a directory that was not there when the watches were
set.  The other systems' watchers, which hear of any file in a directory, are not modelled.
Observations:

* A theme that is only in `theme_dir` is listed by the picker and refused by
  `app_set_theme`, which looks elsewhere; one that names another theme, or about
  which there is any complaint, can be in the file but not be chosen.
* Escape in the picker makes the theme before it an override: it is then pinned
  over later edits and over the file's own colours (app_ui.c:720, 918).  With a file
  that does not parse, Escape undoes nothing.
* An include's `states { unfocused }` is overwritten by the mixed one, as what was
  declared is remembered for one file only.  So is a theme's by the file that asks for
  it, but not when the theme is put on at run time, which lays it last: a chain the file
  had hidden comes to light, by Escape too, and `EscapeUndoes` excepts it.
* A theme or an include that sets `theme_dir` moves the directory in which the very theme
  is looked for when it is worn again, so that another file may be found; `ThemeKept`, and
  what `EscapeUndoes` says of a theme the file asked for, leave that case out.
* An include that is written together with its directory is not heard of, and neither is
  a save between the reading of the files and the watching of them, in a directory that was
  not watched before or while the watches are being replaced (`config_deaf.cfg`).  Both wait
  for the next save that is heard.
* The `reload` command and theme switches do not renew the watched set
  (server.c:582); a deletion is not heard.
* A theme saved over a file with colours of its own lies over them until the
  restart and under them after it.

## 3. What the runs show

| run | instance | shows |
|---|---|---|
| `server_attach` | 3 descriptors, table of 3, sizes incl. unsaid, all policies, several displays or one at a time, prefixes, lone ESCs, detaches, a script that resizes, 3 acts | `ActiveIsDisplay`, `CanvasFollowsPolicy`, `NoSpuriousClose`, `InteractionOwner`, `DetachExact`, `SingleDisplay` |
| `server_classic` | 2 descriptors, `multi_attach` on, off or turned off, fairness | `NobodyStarves` |
| `delivery` | 2 clients, one patient, outbox cap 1, socket 1, frames of 2 units, 3 pictures, 3 other changes | `NeverGarbled`, `NothingOwed`, `Mirrors`, `Settles` |
| `graphics` | 2 images of two placements each with ids their program chose, 2 places to be, 4 changes | `Truthful` (nothing is parked is part of it), `Exact` |
| `screen` | 3 columns on a canvas of 2, 4 or 5, narrow and wide glyphs, 3 changes | `Faithful`, `CaretFollows` |
| `layout` | 3 panes, 2 splits, 3 tabs, nothing straying | `TreeSound` (focus, zoom and frame included), `ViewStays`, `OrderKept` |
| `input` | every gesture, 3 at a time, reads cut anywhere, pastes in pieces | `Decodes` (a paste is never typed included), `Resolves` |
| `status` | 16 sequences, 3 at a time, 2 runs, 2 records, 3 ticks, an echoing pane | `Heard`, `SlotAgrees`, `NoAmplification` |
| `pane` | 3 runs, lines of 2 characters, a cursor on them | `OwnFate`, `Accounted`, `ExitOnEmptyLine`, `Noticed` |
| `keys` | 2 panes in 2 tabs, 5 actions behind the prefix, one binding without | `Overlays`, `NamesKept`, `KeysAimed`, `NoTrap` |
| `config` | 5 files in 5 directories, one of which may not be there, 2 themes, includes to depth 2, 2 changes | `Precedence`, `EscapeUndoes`, `ThemeKept`, `EditsLand` |
| `session` | 8 scenes of 3 or 4 steps: four of sizes, floats, layouts, a project's life, names | `Tiles`, `RoundTrip`, `Asleep`, `OneWorkspace`, `Declared` |

Every property of a run has a mutant in PROJECT.json: a plausible slip in one
definition (kept beside it, marked *Mutant*) that makes it fail under the same
instance.  The modules' type invariants are not among the runs' properties: those
of `Server`, `Delivery`, `Graphics`, `Screen`, `Layout`, `Status`, `Input` and `Config` are proved (section 4), as is the
stronger one of `Keys` (`AppType`, inside `Good`); the others were checked under the same
configurations, and hold.

### Disagreements with the code's own words

Eleven configurations beside the runs each check one sentence of a comment or a doc that
the code does not keep, or a property of a run without the exception it has to make.  They are run by hand (`tlc -config <name>.cfg <module>`)
and TLC finds each violated.

| configuration | module | violated | by |
|---|---|---|---|
| `server_displace.cfg` | `MCServer` | `OnlyGreetedDisplays` | **Displacement mis-indexes.** `server.c:956` decrements the serving index as if the array had been shifted; the last entry was moved.  With a control connection between two displays, the control connection is made the display.  It takes three connections. |
| `server_reload.cfg` | `MCServer` | `SingleDisplay` | **The control `reload` is not the watcher's.** `cmd.c:725` takes the configuration and neither evicts displays nor re-sizes the canvas, as `server.c:1098` does. |
| `server_eagain.cfg` | `MCServer` | `EveryReadMeant` | **Displacement drops the newcomer.** The same slip of `server.c:956` makes the loop look again at the place it has just served: with `multi_attach` off, the client that displaced another is read a second time in the cycle, there is nothing there, and it is dropped for it (`server.c:933`). |
| `server_resize.cfg` | `MCServer` | `CanvasIsPolicys` | **A command sets the canvas** (`server.c:1032`).  `resize` over the socket gives it a size no display has, and it stays so until the policy is next applied. |
| `pane_home.cfg` | `MCPane` | `CountErrsUpwards` | **The line's count errs downwards too** (`pane.c:1079`).  A character, Home, Backspace: nothing is taken and the count is 0, where the comment at pane.c:74 says that it can only be too high. |
| `config_deaf.cfg` | `MCConfig` | `EverySaveLands` | **A save nobody hears of** (`server.c:658`, `server.c:1087`).  A file included from a directory that is made after the watches were set, or saved between the reading and the watching, is not read until something else is saved. |
| `graphics_ids.cfg` | `MCGraphics` | `StillCostsNothing` | **Placement ids 0 and 1 collide** (`graphics.c:233`).  Two placements of an image whose program gave no id share a slot; one is not shown and the other is said every frame. |
| `screen_hole.cfg` | `MCScreen` | `NoHole` | **A hole beside a wide glyph** (`screen.c:492`).  Chrome over the second half is recorded as painted with the first half and never painted. |
| `layout_drag.cfg` | `MCLayout` | `TreeSound` | **A drag that outlives its tab** (`app_layout.c:786`).  Press a handle in one tab, let a script open another, release: the new split becomes the root of the new tab, whose own pane is in no tree, and the old tab's root has a parent elsewhere. |
| `layout_click.cfg` | `MCLayout` | `ClickMovesNothing` | **A drag ended by a key** (`app.c:1847`) forgets everything but the tab it was over; the next plain click on a title carries that pane there. |
| `status_orphan.cfg` | `MCStatus` | `LineHasOwner` | **A line without its record** (`pane.c:233`).  5577's `busy` drops 7501's records and leaves their text on the line, where docs/scripting.md:221 says that this is worse than none. |

The passing runs leave these cases out by their instance (no `reload` by command, the
constant `Straying`, ids a program chose) or by a condition of the property (`forced`, a
display replaced in the same cycle, `astray`, `deaf`), never by changing what the code does.

### Bounds

Constants named `Budget`, `Last` and `...Max` bound what the environment does;
nothing the code does is bounded.  Three connections are what the displacing loop
needs to go wrong, and `server_attach` has them for every policy, one display at a time
among them; two suffice for questions of who among two.  Peers in `MCServer`
act between cycles only: within a cycle the loop looks at a peer at `poll` and at one
`read`, and a `read` takes any non-empty part of what is there, so an act between
the two could as well have come before the one or after the other.  `Backlog` 1
leaves connections in the listening queue in every order.  Descriptors, images
and places are symmetric where no liveness is checked.  An outbox cap of one
unit, a socket of one and frames of two make every cut and every refusal happen.
Three panes need at most two splits, and three tabs are the fewest in which a tab
can go from before the one in view while a third receives its pane; nothing else
in `layout` is bounded, and every chain of verbs over them is explored.
Canvas widths below, above and well above the client's make the view clamp at
both ends and a wide glyph straddle each edge.

Three gestures are one before, one cut in the middle and one that what is left of it
could be taken for the beginning of.  Two records and a cap of two make the table
full, evict and refuse; three sequences are a record, its ancestor and what drops
one of them; two runs are what one can leave to the next.  Three runs of a pane let
a number be free while a later one is alive.  Two panes in two tabs let the subject
of any overlay be gone, elsewhere or alive while the other has the focus.  An include
that may name its parent or itself, two themes that may name one another, and depth
two give every way round in a circle; five remembered files are all there are.  Two
changes to the files are enough to name a file and write it, before, between and after the
reading and the watching.  A
scene's four steps are, for instance: open, save, restart, open; or: split, float,
resize the terminal, drag.  Sizes, floors, gaps and weights in `MCSession` are the
program's own defaults.

### Fairness

* `Server`: `WF(Loop)`, since `poll` returns when there is anything to do and no
  step waits for a peer; `SF(EscTimeout)` and `SF(Reload)`, since each is enabled
  in every cycle until done and its deadline is a time that comes.  Nothing is
  assumed of peers.
* `Delivery`: `WF(Paint)`, `WF(Drain(c))`, since a due frame and POLLOUT both
  wake the loop; `WF(Read(c))`, `WF(Show(c))` only for *patient* clients.  The
  impatient one may stop for ever, which is the case `MAX_OUTBOX` is there for.
* `Input`: `WF(Reading)`, `WF(Timeout)`: bytes wake the poll, and `esc_due` is one of
  its deadlines.
* `Pane`: `WF(Pump)`, `WF(Reap)`: a terminal at its end is readable, and `app_reap` is
  called in every cycle.  The kernel owes nothing: a process may never end, or
  never be there to be waited for.
* `Keys`: the person who has given up (`leaving`) goes on pressing Escape; nothing
  else is assumed.
* `Config`: `WF` of `Drain`, `WatchReload`, `Unwatch` and `Rewatch`: a queue that is not empty
  is readable, a reload that is due has a deadline, and the watches are set in the same turn of
  the loop.  Nobody need stop
  editing; the property speaks of the time after they did.
* `Graphics`, `Screen`, `Layout`, `Status` and `Session` state safety only.

Deadlock is not checked where the system may stop: a session ends, or nobody has
anything left to do.

## 4. What is proved

All of it for any values of the constants that satisfy the assumption of the module they are
about.

### ServerProofs

For any descriptors, table size, sizes, configurations and messages, and for peers
acting at any moment:

| theorem | says |
|---|---|
| `Inductive` | `Spec => []IInv` |
| `TypeCorrect` | `Spec => []TypeOK` |
| `ActiveCorrect` | `Spec => []ActiveIsDisplay` |
| `InteractionCorrect` | `Spec => []InteractionOwner` |
| `DetachCorrect` | `Spec => []DetachExact` |
| `CanvasCorrect` | `Spec => []CanvasFollowsPolicy`, if `PolicyByFile` |
| `ReadsAreMeant` | `Spec => []NoSpuriousClose` |
| `OneAtATimeCorrect` | `Spec => []SingleDisplay`, if `MultiByFile` |

`TypeOK` is not inductive: after a removal the serving index could point past
the array, and reading it would leave the type.  `IInv` adds that the index stays
inside the array while a connection is being served or others are being displaced
(`IndexOK`), that every display has a size and only displays have a parser
(`DisplaysOK`: a canvas is a display's size, so its type depends on it), that the
active client is a display (`ActiveIsDisplay`), and what may be said of the holder
while the active client has been displaced and its successor is not yet there
(`HolderOK`).  Lemmas about the shared operators (`SwapRemoveType`, `ConnCloseOK`,
`PromoteOK`, `CloseConnOK`, `BecomeDisplayOK`, `InteractOK`) carry the handlers;
there is one lemma per action.  Note that the mis-indexing of displacement does
not break these: it makes the wrong connection the display, within the array.
`OnlyGreetedDisplays` is violated and so has no theorem.

The four later ones add to `IInv` what each is about.  `DetachExact` needs `Unique`, a
descriptor is in the array once or in the listening queue, and `Asked`, who asked and is
still here is queued: the queue names descriptors, and would misdirect if it could name one
that has been given to somebody else since.  `NoSpuriousClose` needs `Seen`: an entry
only ever moves down the array, so one that is found at its own slot of the poll set has
never moved, and what poll saw of it is still there.  Displacement breaks that, as it sets the
serving index back; the invariant is that `Seen` holds or a display was replaced in this cycle
(`Replaced`; `server_eagain.cfg` shows the newcomer dropped in such a cycle).
`SingleDisplay` needs to know where the displays are while others are being dropped: not
before the place the loop has come to, but for the newcomer's own (`Single`), which takes that
a display is in the array (`Present`) and there once (`Unique`).  The index by
which the code goes on serving may be wrong by then, and the theorem holds all the same: what
is displayed afterwards is one connection, if not always the one that asked.  `MultiByFile` says
that where the control command's `reload` may be given, `multi_attach` is the same in every
configuration (`server_reload.cfg` without it).
`CanvasFollowsPolicy` is inductive over `IInv`, once what a command sets is remembered as
`forced`, except that the control command's `reload` takes a new policy without sizing
the canvas: `PolicyByFile` says that where that command may be given, the policy is the
same in every configuration (`server_reload.cfg` is the counterexample without it).

### DeliveryProofs

For any number of clients, patient or not, and any sizes of outbox, socket and frame:

| theorem | says |
|---|---|
| `Inductive` | `Spec => []IInv` |
| `TypeCorrect` | `Spec => []TypeOK`, the bound on memory included |
| `Intelligible` | `Spec => []NeverGarbled` |
| `NothingIsOwed` | `Spec => []NothingOwed` |
| `Implements` | `Spec => Mirrors` |

What a terminal shows depends on bytes still in three places, so the invariant speaks
of all of them as one stream, `InFlight(c)`: received, in the socket, in the outbox.
The stream is made of whole frames (`Whole`), each of which makes sense after those
before it (`Linked`), and it ends in what the view believes it painted unless the view
owes a full frame (`Debt`).  Moving bytes between the places does not change it
(`FlushMoves`, `Consumed`), a frame queued adds to its end (`Appended`) and a frame
shown takes from its front (`Dropped`); the refused frame is the case `Debt` is for.
`Implements` is the refinement: a step of `Mirror`, or a stutter, for every step,
by `Linked` never to an older picture.

### TypingProofs

Two components: what is typed, and the program it is typed to.  Of `Pane`, for any
number of runs and any length of line:

| theorem | says |
|---|---|
| `Inductive` | `Spec => []PInv` |
| `FateIsOwn` | `Spec => []OwnFate` |
| `AllAccounted` | `Spec => []Accounted` |
| `ExitOnlyOnEmpty` | `Spec => []ExitOnEmptyLine` |

`PInv` says of every run where it is in its life: one not forked yet is in no table
(`Untouched`); one that was not waited for is held by the pane or was told to hang up
(`Held`); and the process the pane names is its last (`Current`).  `Counted` is
the other half: the estimate of the line is never below its length less what went `astray`,
and `astray` starts anew with every empty line.  So at the zero on which `ctrl_d_exit` acts,
all that is on the line went astray.

Of `Input`, for any set of gestures, any number of them, and reads that cut the stream
anywhere, if nobody types on before an Escape is resolved (`~Hasty`; the observation of
section 2 is what happens otherwise):

| theorem | says |
|---|---|
| `InputTypeCorrect` | `InputSpec => []InputTypeOK`, if `~Hasty` |
| `DecodesAlways` | `InputSpec => []Decodes`, if `~Hasty` |

`Decodes` compares what was decoded with what was meant, and says nothing of the bytes in
between.  The invariant, `InStream`, does: some `k` of the gestures are decoded and some
`c` bytes of the stream are gone, and what the decoder keeps and what is still to be read
are what follows (`Follows`).  `c` is the end of a gesture (`Stands`), or four bytes into a
paste, or, once a timer has cut a paste, anywhere; and outside a paste the decoder keeps
bytes only if it must, because the gesture is not there whole or could be the beginning of
a longer one (`Waits`).  The ends of the gestures (`Ends`) and the events of the first `k`
of them (`Sums`) are given by equations, and the invariant only says that there are such
functions.  The heart of it is `PartTold`: from such a place, and with any number of the
bytes that follow, `parse_one` finds nothing and is right to wait, or finds the
meaning of the next gesture and all of it.  Lemmas of one kind of sequence each carry it
(`CsiTaken`, `Ss3Taken`, `SimpleTaken`, `EscapeWaits`, `PasteFound`, `PasteTaken`), one case per
gesture in the table.  No gesture but a paste contains the
marker that ends one (`OneMarker`), so a paste ends at its own, even after a cut.
`FeedTold` is the loop of `input_feed`, `Pending` says that all a timer can find outside a paste
is a whole Escape or alt+[, and `SumOK` that the events so counted are `Meant`.
The parser and the loop are recursive functions; that they satisfy their equations, and
what holds along them, is shown by the absence of a least exception (`Onwards`).

### GraphicsProofs

For any images, ids, pieces and places, finitely many of each, and any changes of the panes:

| theorem | says |
|---|---|
| `BooksKept` | `Spec => []GInv` |
| `TypeCorrect` | `Spec => []TypeOK` |
| `BooksAreTrue` | `Spec => []Truthful` |
| `WalksCatchUp` | `Spec => [](GInv /\ Walked /\ Still)`, if `Distinct` |
| `StillIsFree` | `Spec => []StillCostsNothing`, if `Distinct` |
| `DeliveredIsExact` | `Spec => []Exact`, if `Distinct` |

`Truthful` speaks of the time between frames, and a frame may be delivered or dropped; so
the invariant keeps two books at once.  `Behind`: without what this frame placed and sent,
the books are true of the terminal, which is what a dropped frame returns to.  `Ahead`: with
it, they are true of the draft, which is what a delivered frame goes on from.  `Named` says
that a wire name is given once, so a deletion that is owed cannot hit a new placement;
`Notes`, that a frame's own notes are empty outside it.  Nothing is assumed of ids.
`Exact` counts, and needs `Distinct`: no program uses the ids 0 and 1 of one image at
once, which the code files in one slot (`graphics_ids.cfg`).  `Walked` then says that what has
been walked to is in the books once and what is not in sight is not in them.

### AppProofs: keys

For any panes in any tabs, any actions behind the prefix and chords without it:

| theorem | says |
|---|---|
| `Inductive` | `Spec => []Inv` |
| `OverlaysKept` | `Spec => []Overlays` |
| `NamesAreMeant` | `Spec => NamesKept` |
| `KeysAreMeant` | `Spec => KeysAimed` |

`Inv` says of the application that some live pane has the focus until the last one goes
(`Housed`: every action that opens an overlay looks at it), that no two overlays own the
keyboard (`One`), and where the marks of a search are: nowhere on a pane that is gone, and,
but for the closed palette's row that can still be clicked (`over`), exactly on the pane the
open bar is about (`Lit`).  A pane's id is never used again, so a bar whose pane has gone can
never come to mark another.  Of the hit list of the last frame it says only that labels are
labels (`Shown`): what they name may be gone, and every click is answered for that case.

### AppProofs: configuration

For any files in any directories, with any texts that include and theme one another in any
way, circles among them, any depth, any number of files that are remembered, and any changes
to them (`ConfigAssumption` says only that a text is a text and that the empty name is
nobody's):

| theorem | says |
|---|---|
| `ConfigTypeCorrect` | `ConfigSpec => []ConfigTypeOK` |
| `PrecedenceHolds` | `ConfigSpec => []Precedence` |
| `EscapeAlwaysUndoes` | `ConfigSpec => []EscapeUndoes` |
| `ThemeStays` | `ConfigSpec => ThemeKept` |

The work is in the loader, and the induction in all four is the same: over the levels of
`Loader`, and at each level over the includes of the file (`Overlaid`), by way of `Onwards`
(a set of numbers that holds zero and each next is all of them), as the library's induction
theorems cannot be used.  What is carried up differs.

* *What is read is coherent.*  `Coherent` adds to the type that what is mixed is mixed from
  what is there, that a chain is remembered as named exactly if it is, and that no more files
  are remembered than there is room for.  `Sound` says of a level that it keeps a configuration
  coherent and a theme that is worn named.  The invariant `CInv` is that of the session: the
  configuration in force is coherent, the picker's copy is, the disk holds texts, no more files are watched than are
  remembered and only directories that are there.
  `Follows` is a part of it; `OwnWord` needs no invariant but the loader: a plain setting that
  a file names is not disturbed by what is mixed after it.
* *Read twice, it is the same.*  What Escape does is another reload, over the files
  as they were, so the picker's promise (`PickerTrue`, inductive with `CInv`) is that what was
  in force when it opened is `Reloaded` with the theme of then.  If the session had been told
  to wear that theme, this is the same call.  If not, the theme is laid once more over
  a configuration that it is in already, and one has to compare two runs of the
  loader that start from different configurations: `Pair` says that what one of them sets
  the other sets to the same, and what they leave was as different before (`Twins`).
* *A theme that was tried is found again.*  The trial is made over the defaults and the wearing
  over what the files have come to, and the name of the theme must be the name at the
  end.  `Calm` is the largest set of files that ask for no theme and include only each other: a
  calm file leaves the name alone, and any other leaves, if there is nothing to complain
  of, the name of a theme whose own file is calm (`Tells`).  So a theme that passed the trial
  has a calm file, and is worn by its name over anything.

The proofs corrected two properties.  `EscapeUndoes` had not excepted the hidden chain of
section 2, and neither it nor `ThemeKept` the theme that moves the directory; the instance
that TLC explores now has a theme that names a chain.

### StatusProofs

For any sequences that say what they mean (`StatusAssumption`, `StatusLegible`), any number of runs, records and ticks, with an echoing pane or without:

| theorem | says |
|---|---|
| `Inductive` | `Spec => []Inv` |
| `TypeCorrect` | `Spec => []TypeOK` |
| `SlotIsTrue` | `Spec => []SlotAgrees` |
| `NoLoop` | `Spec => []NoAmplification` |
| `HeardAlways` | `Spec => []Heard` |

Reads cut the output anywhere and a program may die inside a sequence, so the invariant says
of every piece what may follow it, in the pipe, in the scanner's buffer and across the cut
between them (`Wire`: `LineGood`, `ScanGood`, `Joined`).  From that follows what is heard
(`HeardGood`): a report is a report, and buttons were announced.  A hello is counted where it
is (`HellosKept`): answered, held by the scanner or on its way, and together no more than were
asked; one in a sequence that was cut off is not on its way, as its end will not come, and
what the pane echoes holds none.  Queries are bounded by the time of the last answer and not
by the clock, which ticks by itself (`QueriesKept`).  `SlotGood` is the agreement of the line,
its mark and the record named; `Gone` says that a dead program's records claim no work.

`Heard` compares the records, once all has been read, with the reports that are still true, and
those are found by walking all that was said. The invariant (`Attentive`, on top of `Inv`)
walks with the scanner instead. There is a history `H` of what was still true after each thing
said (`HeldBy`), and a place `n` in it such that the records are of the reports of `H[n]`, in
the order they were made (`Keeps`), and that the scanner, reading the rest of the pipe, will
hear exactly the things said after the n-th, each once and in order, and between them only what
touches no record (`Reads`). While the program runs the scanner will then stand on the ground;
a program that died inside a sequence leaves one open, and the next run begins on nothing. A
gesture makes pipe and history longer by one piece of `Reads` (`ReadsGesture`), an answer that
is echoed by none that says anything (`ReadsAnswer`), and a step of the scanner takes one off:
what the slot does with what it hears (`Hearing`) is what `Still` does to the history
(`HearingKept`: a report that replaces its like, one that puts out the oldest, a clear of a
path and what is under it, the older verbs, a prompt). `StatusLegible` is what the theorem
assumes of the sequences: each, read whole and from the ground, is quiet up to its last piece
and says with that one what it means, and an id is a path. What is proved is that this is still
so when sequences follow one another, are cut by reads, mixed with echoes and abandoned by a
death. TLC evaluates the assumption for the sequences of the runs, malformed ones included,
whose meaning is that nothing is said.

### ScreenProofs

For any width of canvas and client, any set of glyphs and any viewport:

| theorem | says |
|---|---|
| `Inductive` | `Spec => []SInv` |
| `TypeCorrect` | `Spec => []TypeOK` |
| `FramesAreFaithful` | `Spec => Faithful` |
| `CaretIsFollowed` | `Spec => CaretFollows` |
| `SilenceIsKept` | `Spec => NothingForNothing`: a frame that would show what is shown has no byte |

Between frames the invariant is short (`Believed`): while no full frame is owed and no glyph
has been cut, what the diff remembers is what the terminal shows, in whole glyphs, and the
cursor is where it was last put.  The work is in one frame, which is a walk along the row with
an invariant of its own (`Level`).  Behind the walk memory and terminal are the frame.  Ahead
of it a column that is remembered as a glyph shows that glyph; one remembered as half of a
wide glyph says nothing, as painting beside it may have emptied it, and nothing painted is
like it.  That is why the tail has to be committed with its head, and why a frame that cuts
glyphs (`~sound`) ends the promise: a remembered half would then pass for a glyph.  The walk
is a recursive function over the columns.  The library's induction theorems are out of reach,
so that the function exists and that `Along` holds of each of its values is shown by the
absence of a least exception (`Onwards`).

### LayoutProofs

For any number of panes, splits and tabs, and any chain of verbs, ends of programs and drags,
if `Tame`: nothing is dropped, and no pane run again, in a tab that is not on screen
(`layout_drag.cfg` is the counterexample for the first, the first observation of section 2
the second):

| theorem | says |
|---|---|
| `AlwaysGood` | `Spec => [](Good(app) /\ Hands)`, if `Tame` |
| `TypesHold` | `Spec => []TypeOK`, if `Tame` |
| `TreesSound` | `Spec => []TreeSound`, if `Tame` |
| `ViewHolds` | `Spec => ViewStays`, if `Tame` |

`TreeSound` speaks of the nodes under a root, and to say of a step what becomes of a
recursive set of nodes is hopeless.  `Good` says it by the pointers: each node can be given a
tab (`own`) and a depth (`up`) such that a parent is of the same tab and less deep, and lists
its child (`Upward`); a child names its parent, and a split that is in use has two or more
children, all different (`Downward`); root, focus and zoom of a tab are its own (`Homes`); `cur`
is a place on the strip (`View`).  Since depths fall along `parent`, every walk ends, and what
is under a root is what has its tab (`NodesOK`, `LeavesOK`, `FirstOK`).  The code has neither
`own` nor `up`, so the invariant only says that there are some, and each lemma about a verb
gives the new ones from the old: a pane that joins a row takes its neighbour's tab and depth,
a new split takes the depth of the leaf it is put over, whose own grows by one, and a collapse
leaves depths as they are, as only their order matters.  In the middle of a verb a pane is in no tree; `Sound` has a set of
panes in hand (`loose`) for that, empty between steps.

There is one lemma for each helper the code is built from, in the order it calls them, and the
verbs follow from those.  `Layout` assumes no more splits than it must: one fewer than panes is
enough for every tree, by counting (`AllocOK`), so that an allocation never fails in a
theorem for want of a name.

## 5. What is only model-checked

All of `Session`, and `OrderKept` of `Layout`.
`Geometry` and `Session` are written with RECURSIVE operators, which the
prover does not take; `OrderKept` compares the sequences of leaves of two trees, filtered, and the prover knows nothing of `SelectSeq`.  What the extra configurations of
section 3 refute has no theorem, but under the conditions named above.

Liveness (`NobodyStarves`, `Settles`, `Resolves`, `Noticed`, `NoTrap`, `EditsLand`) stays
with TLC: fairness and ENABLED are outside what the prover handles.

## 6. Plan

What could be added next, in order of weight:

1. **Proofs**: `OrderKept` of Layout, for which the lemmas about the order of leaves are to be
   found.
2. **Composition**: `Keys` over `Layout` (the actions that rearrange panes while an overlay is
   open), and `Pane` under `Layout` (reaping many panes).
3. **Pane's views**: scrollback, selection and search of a pane, whose positions must
   move with the text.
4. **Replies**: MSG_REPLY and MSG_EXIT through the outbox of `Delivery`.

Runs are kept few: a component has one passing run, and the table has two because one
asks for fairness.

## 7. Not modelled

Text and looks (chrome, dump formats, JSON, KDL and PNG parsing), floating-point
shaders, system calls without state (`pty.c` beyond what `Pane` makes of it, start-up,
forking), the headless test driver, the Windows emulation, and lib-vt beyond the
placement ids it reports.  Of the application, the selection of text, copying, scrolling
by mouse, toasts and the splash.  Each is listed with its reason under `components` in
PROJECT.json.
