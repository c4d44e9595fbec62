-------------------------------- MODULE Config --------------------------------
(***************************************************************************)
(* The configuration of a running session: the loader with its includes    *)
(* and named themes (src/src/config.c), what a reload keeps (app.c), the   *)
(* theme picker that previews by wearing (app_ui.c), the watcher that      *)
(* reloads what is saved (server.c), and the person who edits the files.   *)
(*                                                                         *)
(* A file is <<directory, name>>.  Of its text only this matters: whether  *)
(* it parses, what it includes, the theme and the theme directory it asks  *)
(* for, which settings it names, and whether some line of it is complained *)
(* about.  A setting's value is the file that gave it.                     *)
(***************************************************************************)
EXTENDS Naturals, Sequences, FiniteSets

CONSTANTS
  Files,      \* the files there may be, Root among them
  Contents,   \* [Files -> the texts each may have]
  Disks,      \* what the disk may hold when the session starts
  DepthMax,   \* INCLUDE_MAX_DEPTH
  FilesMax,   \* CONFIG_FILES_MAX
  EditsMax    \* bound of the instance: changes made to the files

VARIABLES
  disk,       \* [Files -> text]
  cfg,        \* CFG
  override,   \* THEME_OVERRIDE, a name or None
  made,       \* the directories that there are
  watched,    \* what the watcher looks for: a record, see On
  heard,      \* the names whose writing waits to be taken up: the inotify queue
  due,        \* a reload is due: reload_due
  picker,     \* the theme picker, a record
  news,       \* files written since a load last read the disk: a record, see Old
  edits,      \* changes made to the files so far
  settled     \* nobody touches the files or the session any more

watcher == <<made, watched, due>>

configs == <<disk, cfg, override, watcher, heard, picker, news, edits, settled>>

Root == <<"root", "config">>

(* No theme, no directory; the defaults are compiled in. *)
None == ""
NoFile == <<None, None>>

(* "dim" is a plain setting, "bind" a key binding, "colour" a colour of the *)
(* theme block; "status" is a colour, and "scrolled" and "unfocused" shader *)
(* chains, that are mixed from another setting when nobody names them.      *)
Slots == {"dim", "bind", "colour", "status", "scrolled", "unfocused"}
Plain == {"dim", "bind", "colour"}

Themes == {f[2] : f \in {g \in Files : g[1] # "root"}}

Dirs == {f[1] : f \in Files} \cup {None}

FileTexts == [state : {"absent", "broken", "text"}, includes : Seq(Files), dir : Dirs,
          theme : Themes \cup {None}, sets : SUBSET Slots, odd : BOOLEAN]

Absent == [state |-> "absent", includes |-> <<>>, dir |-> None, theme |-> None, sets |-> {},
           odd |-> FALSE]

ASSUME ConfigAssumption ==
  /\ Root \in Files /\ NoFile \notin Files /\ None \notin Themes /\ IsFiniteSet(Files)
  /\ DepthMax \in Nat \ {0} /\ FilesMax \in Nat \ {0} /\ EditsMax \in Nat
  /\ \A f \in Files : Contents[f] \subseteq FileTexts
  /\ \A d \in Disks : d \in [Files -> FileTexts] /\ \A f \in Files : d[f] \in Contents[f]

(***************************************************************************)
(* The loader                                                              *)
(***************************************************************************)
(* A set of one, taken apart: TLC computes its member once. *)
The(S) == CHOOSE x \in S : TRUE

Mixed(s) == <<"mixed", s[2]>>

Defaults ==
  [val |-> [s \in Slots |-> <<IF s \in Plain THEN "set" ELSE "mixed", NoFile>>],
   declared |-> FALSE, theme |-> None, dir |-> None, files |-> {}, asked |-> {}, bad |-> FALSE]

(* complain: a line that could not be honoured; the rest of it applied. *)
Complained(c) == [c EXCEPT !.bad = TRUE]

(* A setting the file names is the file's; any other stays what it was. *)
NamedBy(val, f, t, slots) ==
  [s \in Slots |-> IF s \in slots \cap t.sets THEN <<"set", f>> ELSE val[s]]

SettingsRead(val, f, t) == NamedBy(val, f, t, {"dim"})

BindsRead(val, f, t) == NamedBy(val, f, t, {"bind"})

(* apply_dim_unfocused: a file that does not name the chain mixes it anew,  *)
(* whoever named it before.                                                 *)
ChainsRead(val, f, t) ==
  LET v == NamedBy(val, f, t, {"scrolled", "unfocused"})
  IN IF "unfocused" \in t.sets THEN v ELSE [v EXCEPT !["unfocused"] = Mixed(val["dim"])]

(* So does a theme block that does not name the status colour. *)
ThemeBlock(val, f, t) ==
  LET v == NamedBy(val, f, t, {"colour", "status"})
  IN IF t.sets \cap {"colour", "status"} = {"colour"}
     THEN [v EXCEPT !["status"] = Mixed(v["colour"])] ELSE v

(* apply_scrolled, apply_bell: for these it is remembered that somebody     *)
(* named the chain.                                                         *)
Washed(val, said) == IF said THEN val ELSE [val EXCEPT !["scrolled"] = Mixed(val["colour"])]

(* The rest of load_into: what the file says itself. *)
Applied(c, f, t) ==
  LET said == c.declared \/ "scrolled" \in t.sets
      read == {ThemeBlock(v, f, t) :
                 v \in {ChainsRead(w, f, t) : w \in {SettingsRead(c.val, f, t)}}}
      mixed == {BindsRead(v, f, t) : v \in {Washed(w, said) : w \in read}}
  IN [c EXCEPT !.declared = said, !.bad = @ \/ t.odd, !.val = The(mixed)]

\* Mutant: only a file that was read is remembered.
RememberRead(c, f, d) ==
  [c EXCEPT !.asked = @ \cup {f},
            !.files = IF d[f].state = "text" /\ Cardinality(@) < FilesMax THEN @ \cup {f} ELSE @]
(* remember_file: before the parse, for a file that is not there yet is the *)
(* one worth watching.                                                      *)
Remember(c, f, d) ==
  [c EXCEPT !.asked = @ \cup {f},
            !.files = IF Cardinality(@) < FilesMax THEN @ \cup {f} ELSE @]

(* config_theme_dirs: the configuration's own directory replaces the one    *)
(* beside it, never the shipped one.                                        *)
ThemeDirs(c) == <<IF c.dir # None THEN c.dir ELSE "beside", "shipped">>

(* theme_path, and config_themes: a name is the first directory's. *)
ThemeFile(c, name, d) ==
  LET there(dir) == <<dir, name>> \in Files /\ d[<<dir, name>>].state # "absent"
      dirs == ThemeDirs(c)
  IN IF there(dirs[1]) THEN <<dirs[1], name>>
     ELSE IF there(dirs[2]) THEN <<dirs[2], name>> ELSE NoFile

ThemesListed(c, d) == {n \in Themes : ThemeFile(c, n, d) # NoFile}

(* What a file can be read into. *)
Configurations ==
  [val : [Slots -> {"set", "mixed"} \X (Files \cup {NoFile})], declared : BOOLEAN,
   theme : Themes \cup {None}, dir : Dirs, files : SUBSET Files, asked : SUBSET Files,
   bad : BOOLEAN]

(* Below, inner is the loader one level further in: inner[c][f] is what     *)
(* reading f into c comes to.                                               *)

(* apply_theme_name *)
ThemeApplied(c, name, inner, d) ==
  LET f == ThemeFile(c, name, d)
  IN IF f = NoFile THEN Complained(c) ELSE inner[[c EXCEPT !.theme = name]][f].c

(* apply_includes: in order, each over the one before. *)
Overlaid(c, files, inner) ==
  LET over[i \in 0..Len(files)] == IF i = 0 THEN c ELSE inner[over[i - 1]][files[i]].c
  IN over

Included(c, files, inner) == Overlaid(c, files, inner)[Len(files)]

(* theme_dir, then theme_name. *)
Asked(c, t, inner, d) ==
  LET e == IF t.dir # None THEN [c EXCEPT !.dir = t.dir] ELSE c
  IN IF t.theme = None THEN e ELSE ThemeApplied(e, t.theme, inner, d)

\* Mutant: the theme is read after what the file says itself.
OwnTextThemed(c, f, t, inner, d) ==
  The({Asked(e, t, inner, d) : e \in {Applied(c, f, t)}})
(* What a file says itself is over its theme. *)
OwnText(c, f, t, inner, d) ==
  The({Applied(e, f, t) : e \in {Asked(c, t, inner, d)}})

(* A file that is not read is a complaint and no more. *)
Refused(c) == [ok |-> FALSE, c |-> Complained(c)]

(* load_into: what a file includes is its base, the theme it asks for is    *)
(* over that, what it says itself over both.                                *)
LoadInto(c, f, inner, d) ==
  LET r == Remember(c, f, d)
      t == d[f]
  IN IF t.state # "text" THEN Refused(r)
     ELSE [ok |-> TRUE,
           c |-> The({OwnText(e, f, t, inner, d) : e \in {Included(r, t.includes, inner)}})]

(* One that may go n levels deep: a file nested deeper is refused unread. *)
Loader(d) ==
  LET load[n \in 0..DepthMax + 1] ==
        [c \in Configurations |-> [f \in Files |->
           IF n = 0 THEN Refused(c) ELSE LoadInto(c, f, load[n - 1], d)]]
  IN load

Load(c, f, depth, d) == Loader(d)[DepthMax + 1 - depth][c][f]

(* config_apply_theme: a theme that says anything wrong, or that is itself  *)
(* another theme by name, counts as not applied.                            *)
ApplyTheme(c, name, d) ==
  The({[ok |-> r.theme = name /\ ~r.bad, c |-> [r EXCEPT !.bad = @ \/ c.bad]] :
         r \in {ThemeApplied([c EXCEPT !.bad = FALSE], name, Loader(d)[DepthMax], d)}})

(***************************************************************************)
(* The session: ensure_config, app_reload_config, app_set_theme            *)
(***************************************************************************)
\* Mutant: the file's own theme comes back with every reload.
ReloadedPlain(d, name) == Load(Defaults, Root, 0, d)
(* What a reload makes of the disk: the files, then the theme the session   *)
(* was told to wear.                                                        *)
Reloaded(d, name) ==
  LET over(c) == The({[ok |-> TRUE, c |-> [o.c EXCEPT !.bad = @ \/ ~o.ok]] :
                        o \in {ApplyTheme(c, name, d)}})
  IN The({IF ~r.ok \/ name = None THEN r ELSE over(r.c) : r \in {Load(Defaults, Root, 0, d)}})

(* config_write_theme_name: the one line, in place; it may not be writable. *)
Written(d, name) ==
  [d EXCEPT ![Root] = IF @.state = "absent" THEN [Absent EXCEPT !.state = "text", !.theme = name]
                      ELSE [@ EXCEPT !.theme = name]]

(* Nothing was written since the disk was read.  "deaf" are the files whose *)
(* writing nobody could hear: their directory was not there when the        *)
(* watches were set, or the watches were being set.                         *)
Old == [files |-> {}, deaf |-> {}]

(* The rest of app_set_theme, once the theme is known to be there and the   *)
(* file is saved or need not be: d is the disk as it then is.  A session    *)
(* whose configuration cannot be read wears the theme over what it has.     *)
Worn(d, name) ==
  \E r \in {Reloaded(d, name)} :
     /\ override' = name
     /\ disk' = d
     /\ IF r.ok THEN cfg' = r.c /\ news' = Old
        ELSE /\ cfg' = IF name = None THEN cfg ELSE [ApplyTheme(cfg, name, d).c EXCEPT !.bad = cfg.bad]
             /\ news' = news

(* The trial: a configuration nobody has loaded, which knows no theme_dir.  *)
Wearable(name, d) == ApplyTheme(Defaults, name, d).ok

(* The watcher: the files the configuration named and the directories there *)
(* were when the watches were set, and how far setting them has come: "on", *)
(* "stale" when the files were read since, "off" while there is no watch.   *)
Unwatched == [files |-> {}, dirs |-> {}, stage |-> "off"]

(* A file closed after writing, or moved into place, is heard of when the   *)
(* directory of some file is watched, and it is its directory.              *)
Hears(f) == f[1] \in watched.dirs /\ \E g \in watched.files : g[1] = f[1]

Queued(f) == IF Hears(f) THEN heard \cup {f[2]} ELSE heard

(* app_set_theme, whole.  None is the file's own answer. *)
SetTheme(name, save) ==
  \/ name # None /\ ~Wearable(name, disk) /\ UNCHANGED <<disk, cfg, override, heard, news>>
  \/ save /\ name # None /\ UNCHANGED <<disk, cfg, override, heard, news>>
  \/ name = None /\ Worn(disk, None) /\ UNCHANGED heard
  \/ name # None /\ Wearable(name, disk) /\ ~save /\ Worn(disk, name) /\ UNCHANGED heard
  \/ /\ name # None /\ Wearable(name, disk) /\ save
     /\ Worn(Written(disk, name), name) /\ heard' = Queued(Root)

(* The server handles nothing else between reading the files and watching   *)
(* them.                                                                    *)
Free == ~settled /\ watched.stage = "on"

(***************************************************************************)
(* The theme picker                                                        *)
(***************************************************************************)
Shut == [open |-> FALSE, was |-> None, list |-> {}, before |-> Defaults, over |-> None,
         quiet |-> FALSE, escaped |-> FALSE]

(* The files or the session changed under an open picker. *)
Disturbed == [picker EXCEPT !.quiet = FALSE, !.escaped = FALSE]

OpenPicker ==
  /\ Free /\ ~picker.open /\ ThemesListed(cfg, disk) # {}
  /\ picker' = [Shut EXCEPT !.open = TRUE, !.was = cfg.theme, !.list = ThemesListed(cfg, disk),
                            !.before = cfg, !.over = override,
                            !.quiet = (cfg = Reloaded(disk, override).c)]
  /\ UNCHANGED <<disk, cfg, override, watcher, heard, news, edits, settled>>

(* picker_move, theme_preview: the row under the selection is worn. *)
Preview(n) ==
  /\ Free /\ picker.open /\ n \in picker.list
  /\ SetTheme(n, FALSE)
  /\ UNCHANGED <<watcher, picker, edits, settled>>

(* Enter on a row, or on none. *)
Accept(n) ==
  /\ Free /\ picker.open /\ picker' = Shut
  /\ IF n = None THEN UNCHANGED <<disk, cfg, override, heard, news>>
     ELSE n \in picker.list /\ SetTheme(n, FALSE)
  /\ UNCHANGED <<watcher, edits, settled>>

(* C-s: what is worn is kept and written down. *)
Keep ==
  /\ Free /\ picker.open /\ edits < EditsMax
  /\ IF cfg.theme = None THEN UNCHANGED <<disk, cfg, override, heard, news, picker, edits>>
     ELSE SetTheme(cfg.theme, TRUE) /\ picker' = Shut /\ edits' = edits + 1
  /\ UNCHANGED <<watcher, settled>>

\* Mutant: the preview survives the escape.
EscapeLeaves == UNCHANGED <<disk, cfg, override, heard, news>>
EscapeUndone == SetTheme(picker.was, FALSE)

Escape ==
  /\ Free /\ picker.open
  /\ EscapeUndone
  /\ picker' = [picker EXCEPT !.open = FALSE, !.escaped = TRUE]
  /\ UNCHANGED <<watcher, edits, settled>>

(* A press anywhere, a theme's own row included, only closes it. *)
Dismiss ==
  /\ Free /\ picker.open /\ picker' = Shut
  /\ UNCHANGED <<disk, cfg, override, watcher, heard, news, edits, settled>>

(***************************************************************************)
(* The commands, the watcher, and the person at the files                  *)
(***************************************************************************)
ThemeCommand(name, save) ==
  /\ Free /\ edits < EditsMax /\ edits' = edits + 1
  /\ SetTheme(name, save) /\ picker' = Disturbed
  /\ UNCHANGED <<watcher, settled>>

(* `reload` in a binding or on the socket: what is watched stays as it was. *)
ReloadCommand ==
  /\ Free
  /\ \E r \in {Reloaded(disk, override)} :
        IF r.ok THEN cfg' = r.c /\ news' = Old ELSE UNCHANGED <<cfg, news>>
  /\ picker' = Disturbed
  /\ UNCHANGED <<disk, override, watcher, heard, edits, settled>>

(* watch_drain: the names alone are compared, whatever their directory.     *)
Drain ==
  /\ watched.stage = "on" /\ heard # {} /\ heard' = {}
  /\ due' = (due \/ \E g \in watched.files : g[2] \in heard)
  /\ UNCHANGED <<disk, cfg, override, made, watched, picker, news, edits, settled>>

(* server_run, when the debounce is over: the files are read first.         *)
WatchReload ==
  /\ watched.stage = "on" /\ due /\ due' = FALSE
  /\ \E r \in {Reloaded(disk, override)} :
        IF r.ok THEN cfg' = r.c /\ news' = Old /\ watched' = [watched EXCEPT !.stage = "stale"]
        ELSE UNCHANGED <<cfg, watched, news>>
  /\ picker' = Disturbed
  /\ UNCHANGED <<disk, override, made, heard, edits, settled>>

(* watch_config, after a reading that went well: the watches are removed,   *)
(* but what they queued stays.                                              *)
Unwatch ==
  /\ watched.stage = "stale" /\ watched' = Unwatched
  /\ UNCHANGED <<disk, cfg, override, made, heard, due, picker, news, edits, settled>>

(* Then the directories of the files the configuration names are watched,   *)
(* as many as there are.  The configuration's own is made; no other is.     *)
Rewatch ==
  /\ watched.stage = "off"
  /\ made' = made \cup {Root[1]}
  /\ watched' = [files |-> cfg.files, dirs |-> made', stage |-> "on"]
  /\ UNCHANGED <<disk, cfg, override, heard, due, picker, news, edits, settled>>

(* A file is written, in a directory that is made for it when it is not     *)
(* there, or deleted, of which nothing is heard; directories stay.          *)
Edit(f, t) ==
  /\ ~settled /\ edits < EditsMax /\ edits' = edits + 1
  /\ disk[f] # t /\ disk' = [disk EXCEPT ![f] = t]
  /\ IF t.state = "absent" THEN UNCHANGED <<made, heard, news>>
     ELSE /\ made' = made \cup {f[1]} /\ heard' = Queued(f)
          /\ news' = [files |-> news.files \cup {f},
                      deaf  |-> IF ~Hears(f) /\ (watched.stage # "on" \/ f[1] \notin watched.dirs)
                                THEN news.deaf \cup {f} ELSE news.deaf \ {f}]
  /\ picker' = Disturbed
  /\ UNCHANGED <<cfg, override, watched, due, settled>>

Settle ==
  /\ ~settled /\ settled' = TRUE /\ picker' = Shut
  /\ UNCHANGED <<disk, cfg, override, watcher, heard, news, edits>>

(* ensure_config: a file that is not there, or broken, leaves the defaults. *)
(* The server watches it some time later (server_run).                      *)
ConfigInit ==
  /\ disk \in Disks
  /\ cfg = Load(Defaults, Root, 0, disk).c
  /\ made \in SUBSET (Dirs \ {None}) /\ \A f \in Files : disk[f].state # "absent" => f[1] \in made
  /\ override = None /\ watched = Unwatched /\ heard = {} /\ due = FALSE /\ news = Old
  /\ picker = Shut /\ edits = 0 /\ settled = FALSE

ConfigNext ==
  \/ OpenPicker \/ Keep \/ Escape \/ Dismiss
  \/ \E n \in Themes : Preview(n)
  \/ \E n \in Themes \cup {None} : Accept(n)
  \/ \E n \in Themes \cup {None}, save \in BOOLEAN : ThemeCommand(n, save)
  \/ ReloadCommand \/ Drain \/ WatchReload \/ Unwatch \/ Rewatch \/ Settle
  \/ \E f \in Files : \E t \in Contents[f] : Edit(f, t)

(* The server's loop comes round: what is queued is taken up, a reload that *)
(* is due is done, and the watches are set.                                 *)
ConfigSpec ==
  /\ ConfigInit /\ [][ConfigNext]_configs
  /\ WF_configs(Drain) /\ WF_configs(WatchReload) /\ WF_configs(Unwatch) /\ WF_configs(Rewatch)

(***************************************************************************)
(* Properties                                                              *)
(***************************************************************************)
ConfigTypeOK ==
  /\ \A f \in Files : disk[f].state \in {"absent", "broken", "text"}
  /\ override \in Themes \cup {None} /\ cfg.theme \in Themes \cup {None}
  /\ watched.files \subseteq Files /\ Cardinality(watched.files) <= FilesMax
  /\ watched.dirs \subseteq made /\ watched.stage \in {"on", "stale", "off"}
  /\ cfg.files \subseteq cfg.asked /\ news.deaf \subseteq news.files /\ news.files \subseteq Files
  /\ heard \subseteq {f[2] : f \in Files}
  /\ due \in BOOLEAN /\ edits \in 0..EditsMax

(* Whose word a setting is: the file's own, then its theme's, then that of  *)
(* the last include, however they nest, go round in circles or fail.        *)
OwnWord ==
  LET r == Load(Defaults, Root, 0, disk)
      t == disk[Root]
      base == Included(Remember(Defaults, Root, disk), t.includes, Loader(disk)[DepthMax])
      theme == ThemeFile([base EXCEPT !.dir = IF t.dir # None THEN t.dir ELSE @], t.theme, disk)
      themed(s) == t.theme # None /\ theme # NoFile /\ s \in disk[theme].sets
                   /\ disk[theme].state = "text"
      simple == t.theme = None \/ theme = NoFile
                \/ (disk[theme].theme = None /\ disk[theme].includes = <<>>)
      last == t.includes[Len(t.includes)]
  IN r.ok => \A s \in Plain :
       /\ s \in t.sets => r.c.val[s] = <<"set", Root>>
       /\ s \notin t.sets /\ themed(s) => r.c.val[s] = <<"set", theme>>
       /\ s \notin t.sets /\ ~themed(s) /\ simple /\ t.includes # <<>> =>
            (disk[last].state = "text" /\ s \in disk[last].sets => r.c.val[s] = <<"set", last>>)

(* What nobody named follows what it is mixed from: no reload, preview or   *)
(* theme worn over a broken file leaves a mixed colour or chain in the      *)
(* colours of a theme that is gone.                                         *)
MixedRight(c) ==
  /\ c.val["status"][1] = "mixed"    => c.val["status"]    = Mixed(c.val["colour"])
  /\ c.val["scrolled"][1] = "mixed"  => c.val["scrolled"]  = Mixed(c.val["colour"])
  /\ c.val["unfocused"][1] = "mixed" => c.val["unfocused"] = Mixed(c.val["dim"])
  /\ c.declared <=> c.val["scrolled"][1] = "set"

Follows == MixedRight(cfg)

(* A setting is the word of the nearest file that has one, or what it is    *)
(* mixed from (load_into).                                                  *)
Precedence == OwnWord /\ Follows

(* The theme the session was told to wear is there to be worn, and no theme *)
(* or include moves the directory it is found in.                           *)
ToBeWorn ==
  /\ override # None /\ Wearable(override, disk)
  /\ \A f \in Files \ {Root} : disk[f].dir = None
  /\ ThemeFile(Defaults, override, disk) = ThemeFile(cfg, override, disk)

IsWorn ==
  LET f == ThemeFile(cfg, override, disk)
  IN cfg.theme = override /\ \A s \in disk[f].sets : cfg.val[s] = <<"set", f>>

(* It stays on through every reload, over the file's own colours; and a     *)
(* theme the session is newly told to wear has a file.                      *)
ThemeKept ==
  [][/\ cfg' # cfg /\ ToBeWorn' => IsWorn'
     /\ override' \notin {None, override} => ThemeFile(Defaults, override', disk) # NoFile]_configs

(* Escape undoes the previews: the session looks as it did when the picker  *)
(* was opened.  It does so only when the configuration can be read and the  *)
(* theme worn then can be worn by name.  Unless the session had been told   *)
(* to wear it already, the file must say nothing of its own and no other    *)
(* file name a theme directory, and a chain that a theme names, and that    *)
(* the file has mixed over, comes to light.                                 *)
EscapeUndoes ==
  LET was == picker.was
      before == picker.before
      named(s) == \E f \in Files \ {Root} : s \in disk[f].sets
  IN picker.escaped /\ picker.quiet /\ disk[Root].state = "text"
       /\ (was = None \/ Wearable(was, disk)) =>
     /\ was \in {None, picker.over} => cfg.val = before.val /\ cfg.theme = before.theme
     /\ /\ picker.over = None /\ disk[Root].theme = was
        /\ disk[Root].sets = {} /\ disk[Root].includes = <<>>
        /\ \A f \in Files \ {Root} : disk[f].dir = None
        => /\ cfg.theme = before.theme
           /\ \A s \in Slots : cfg.val[s] = before.val[s] \/ (s = "unfocused" /\ named(s))

(* What is saved is seen: a file the configuration was read from, or would  *)
(* have been had it been there, and that is written, is read again, unless  *)
(* the configuration came by command and not by the watcher, or names more  *)
(* files than are remembered, or nobody could hear of it (Old).             *)
Watchable == watched.files = cfg.files /\ Cardinality(cfg.files) < FilesMax

EditsLand ==
  (settled /\ (news.files \ news.deaf) \cap cfg.asked # {} /\ Watchable)
    ~> (news.files = {} \/ disk[Root].state # "text")

(* That last exception is needed: a file written with its directory, or     *)
(* before the watches are set, is not heard of by itself.                   *)
EverySaveLands ==
  (settled /\ news.files \cap cfg.asked # {} /\ Watchable)
    ~> (news.files = {} \/ disk[Root].state # "text")
=============================================================================
