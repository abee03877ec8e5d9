-------------------------------- MODULE Trainer --------------------------------
(***************************************************************************)
(* The trainer CLI (tools/gt_trainer_cli.cpp): it parses a cheat table,    *)
(* attaches to the running game or to a simulated one, resolves where the  *)
(* player's health, armour, ammunition and height are, and then runs its   *)
(* test or its loop.  Beside it run the worker of the ammunition freeze    *)
(* (FreezeManager, cut down here to one id), the game, and the keyboard.   *)
(*                                                                         *)
(* A memory is a function on the addresses that are mapped; a cell holds a *)
(* number or a pointer.  Floats are taken as integers.                     *)
(***************************************************************************)
EXTENDS CheatTable

CONSTANTS
    Layouts,    \* [mac, win |-> where the game keeps things on the two platforms]
    Arms,       \* [hand, weapon, slot, clip |-> the simulated player's weapon and its clip]
    Guns,       \* 0..8
    Rifle,      \* 6, whose clip is the default ammunition
    Builds,     \* "windows", "darwin" or "posix"
    Games,      \* [cells, base, alive]: the games there may be; no cells if it cannot be opened
    MaxTries,   \* the seven tables tried after the first
    MaxPlays,   \* steps of the game itself
    MaxPresses, \* times a key combination is pressed, all together
    MaxHeight   \* the player jumps no more above it

\* A layout gives each thing a place of its own.
LayoutIsSound(l) ==
    LET clips == {l.clip + g : g \in Guns}
        spare == {l.reserve + g : g \in Guns}
        sole  == <<l.health, l.armor, l.gun, l.z>>
    IN /\ {l.base, l.pointer, l.player, l.clip, l.reserve} \subseteq Nat
       /\ \A i \in 1..4 : /\ sole[i] \in Nat \ (clips \cup spare)
                         /\ \A j \in 1..i-1 : sole[j] # sole[i]
       /\ clips \cap spare = {}

ASSUME TrainerAssumption ==
    /\ Guns \subseteq Nat /\ Rifle \in Guns
    /\ MaxTries \in Nat /\ MaxPlays \in Nat /\ MaxPresses \in Nat
    /\ MaxHeight \in Nat
    /\ \A l \in {Layouts.mac, Layouts.win} : LayoutIsSound(l)
    /\ {Arms.hand, Arms.weapon, Arms.slot, Arms.clip} \subseteq Nat
    /\ \A g \in Games :
          /\ g = [cells |-> g.cells, base |-> g.base, alive |-> g.alive]
          /\ g.cells \in [DOMAIN g.cells -> Nat]

VARIABLES
    phase,     \* where main is
    mode,      \* "test", "lines" or "poll"
    build, macPath, tries,
    game,      \* the game's memory, its module base and whether it runs
    simulated, \* SimulatedGameBackend's memory_
    session,   \* "none", "game" or "simulated"
    aim,       \* the resolved addresses and player_base
    frozen,    \* ammo_frozen
    lock,      \* "ammo_freeze_primary" in the FreezeManager
    before,    \* the memory when the test began, orig_state and z_before
    running,   \* g_running
    down, prev,      \* the combinations held now, and when last looked at
    presses, fired,  \* how often each was pressed, and has fired
    plays

worldVars == <<build, macPath, mode>>
memVars   == <<game, simulated, session, aim>>
keyVars   == <<down, prev, presses, fired>>
vars == <<tableVars, worldVars, memVars, keyVars, phase, tries, frozen, lock, before,
          running, plays>>

NoAddress == -1
Bindings  == <<"h", "a", "z">>

Read(cells, a) == IF a \in DOMAIN cells THEN cells[a] ELSE NoAddress
ReadOr0(cells, a) == IF a \in DOMAIN cells THEN cells[a] ELSE 0

\* The memory with v in the cells as.
Store(cells, as, v) ==
    [a \in DOMAIN cells \cup as |-> IF a \in as THEN v ELSE cells[a]]

\* The cells SimulatedGameBackend starts with, of one platform, and those it has.
PlayerCells(cells, l) ==
    LET player == Store(cells, {l.base + l.pointer}, l.player)
        health == Store(player, {l.player + l.health}, 100)
        armor  == Store(health, {l.player + l.armor}, 50)
        gun    == Store(armor, {l.player + l.gun}, Rifle)
        spare  == Store(gun, {l.player + l.reserve + g : g \in Guns}, 60)
        clips  == Store(spare, {l.player + l.clip + g : g \in Guns}, 20)
    IN Store(clips, {l.player + l.z}, 4)

\* The Windows player holds a weapon, which points to a clip of its own.
WeaponCells(cells) ==
    LET hand == Store(cells, {Layouts.win.player + Arms.hand}, Arms.weapon)
        slot == Store(hand, {Arms.weapon + Arms.slot}, Arms.clip)
    IN Store(slot, {Arms.clip}, 30)

Simulation == PlayerCells(WeaponCells(PlayerCells(<<>>, Layouts.win)), Layouts.mac)

Nowhere == [health |-> NoAddress, armor |-> NoAddress, ammo |-> NoAddress,
            z |-> NoAddress, player |-> 0]

Init ==
    /\ TableInit
    /\ build \in Builds /\ macPath \in BOOLEAN /\ mode \in {"test", "lines", "poll"}
    /\ game \in Games
    /\ phase = "table" /\ tries = 0
    /\ simulated = <<>> /\ session = "none" /\ aim = Nowhere
    /\ frozen = FALSE /\ lock = "none" /\ running = TRUE /\ plays = 0
    /\ before = [cells |-> <<>>, state |-> <<>>, z |-> NoAddress]
    /\ down = [b \in 1..3 |-> FALSE] /\ prev = down
    /\ presses = [b \in 1..3 |-> 0] /\ fired = presses

\* main goes on to another phase.
Go(p) == phase' = p

\* main returns: the FreezeManager goes with it, and joins its worker.
Return(p) ==
    Go(p) /\ lock' = (IF lock = "active" THEN "stopped" ELSE lock)

-----------------------------------------------------------------------------
(* The table, and the entries the trainer looks for                        *)

ParseTable ==
    /\ phase = "table" /\ TableStep
    /\ UNCHANGED <<worldVars, memVars, keyVars, phase, tries, frozen, lock, before,
                   running, plays>>

\* A table that cannot be parsed: the next path of the list.
TryNextTable ==
    /\ phase = "table" /\ stage = "refused" /\ tries < MaxTries
    /\ tries' = tries + 1
    /\ doc' \in Documents /\ macPath' \in BOOLEAN
    /\ at' = 1 /\ stage' = "prolog" /\ declared' = FALSE
    /\ open' = <<>> /\ root' = NoElement /\ child' = 1 /\ table' = EmptyTable
    /\ UNCHANGED <<build, mode, memVars, keyVars, phase, frozen, lock, before,
                   running, plays>>

NoTable ==
    /\ phase = "table" /\ stage = "refused" /\ tries = MaxTries
    /\ Return("exit")
    /\ UNCHANGED <<tableVars, worldVars, memVars, keyVars, tries, frozen, before,
                   running, plays>>

\* The entries by their descriptions, each as a sequence of at most one: the last
\* one of a name, but the first of the three that mean ammunition.
DescribedBy(entries, names) == SelectSeq(entries, LAMBDA e : e.description \in names)
EntriesCalled(names) == DescribedBy(table.entries, names)
LastCalled(name) ==
    LET found == EntriesCalled({name})
    IN IF found = <<>> THEN <<>> ELSE <<found[Len(found)]>>
FirstAmmo ==
    LET found == EntriesCalled({"Assault Rifle Clip Ammo", "Weapon Ammo", "Riffle Ammo"})
    IN IF found = <<>> THEN <<>> ELSE <<found[1]>>

Health == LastCalled("Health")

IsMac == macPath \/ (Health # <<>> /\ Health[1].section = "assaultcube")
Layout == IF IsMac THEN Layouts.mac ELSE Layouts.win

-----------------------------------------------------------------------------
(* Attaching and resolving                                                 *)

\* Windows attaches to a game that runs, macOS only for a table of its own and if
\* the task port is given; else the memory is simulated.
Attach ==
    /\ phase = "table" /\ stage = "parsed"
    /\ \/ /\ build = "windows" \/ (build = "darwin" /\ IsMac)
          /\ game.alive
          /\ session' = "game" /\ UNCHANGED simulated
       \/ /\ build # "windows" \/ ~game.alive
          /\ session' = "simulated" /\ simulated' = Simulation
    /\ Go("resolve")
    /\ UNCHANGED <<tableVars, worldVars, game, aim, keyVars, tries, frozen, lock, before,
                   running, plays>>

Cells == IF session = "game" THEN game.cells ELSE simulated

LiveBase == IF session = "game" /\ build = "darwin" THEN game.base ELSE 0

\* compute_entry_base.
EntryBase(e) ==
    LET default == IF LiveBase # 0 THEN LiveBase ELSE Layout.base
    IN IF e = <<>> THEN default + Layout.pointer
       ELSE IF e[1].section = "assaultcube"
       THEN (IF LiveBase # 0 THEN LiveBase ELSE Layouts.mac.base) + e[1].address
       ELSE IF e[1].section = "ac_client.exe" THEN Layouts.win.base + e[1].address
       ELSE IF e[1].address >= Layouts.mac.base /\ LiveBase = 0 THEN e[1].address
       ELSE default + e[1].address

\* The bases after the switch to the simulation: the sections count no more.
SimulatedBase(e) ==
    Layout.base + (IF e = <<>> THEN Layout.pointer ELSE e[1].address)

BaseOf(e) == IF phase = "fallback" THEN SimulatedBase(e) ELSE EntryBase(e)

OffsetsOr(e, default) ==
    IF e # <<>> /\ e[1].offsets # <<>> THEN e[1].offsets ELSE <<default>>

\* resolve_pointer_chain of the trainer: read, then add the offset.
Chain(cells, base, offsets) ==
    FoldLeft(LAMBDA a, offset : IF a \in DOMAIN cells THEN cells[a] + offset ELSE NoAddress,
             base, offsets)

Aimed(cells, player) ==
    [health |-> Chain(cells, BaseOf(Health), OffsetsOr(Health, Layout.health)),
     armor  |-> Chain(cells, BaseOf(LastCalled("Armor")),
                      OffsetsOr(LastCalled("Armor"), Layout.armor)),
     ammo   |-> Chain(cells, BaseOf(FirstAmmo), OffsetsOr(FirstAmmo, Layout.clip + Rifle)),
     z      |-> Chain(cells, BaseOf(LastCalled("ZCord")),
                      OffsetsOr(LastCalled("ZCord"), Layout.z)),
     player |-> IF Read(cells, BaseOf(Health)) \in {0, NoAddress} THEN player
                ELSE cells[BaseOf(Health)]]

\* Mutant: the height may be missing.
Located_NoHeight(a) == NoAddress \notin {a.health, a.ammo}

Located(a) == NoAddress \notin {a.health, a.ammo, a.z}

\* Without the armour's address, the one its offset has in the player.
WithArmor(a) ==
    IF a.armor = NoAddress /\ a.player # 0
    THEN [a EXCEPT !.armor = a.player + Layout.armor] ELSE a

Resolve ==
    /\ phase = "resolve"
    /\ LET a == Aimed(Cells, 0)
           valid == Located(a) /\ {a.health, a.ammo, a.z} \subseteq DOMAIN Cells
       IN /\ aim' = IF valid THEN WithArmor(a) ELSE a
          /\ Go(IF valid THEN "ready" ELSE "fallback")
    /\ UNCHANGED <<tableVars, worldVars, game, simulated, session, keyVars, tries, frozen,
                   lock, before, running, plays>>

\* The session and the FreezeManager are made anew on a simulation.
FallBack ==
    /\ phase = "fallback"
    /\ session' = "simulated" /\ simulated' = Simulation
    /\ LET a == Aimed(Simulation, aim.player)
       IN /\ aim' = WithArmor(a)
          /\ Go(IF Located(a) THEN "ready" ELSE "unresolved")
    /\ UNCHANGED <<tableVars, worldVars, game, keyVars, tries, frozen, lock, before,
                   running, plays>>

Unresolved ==
    /\ phase = "unresolved" /\ Return("exit")
    /\ UNCHANGED <<tableVars, worldVars, memVars, keyVars, tries, frozen, before,
                   running, plays>>

-----------------------------------------------------------------------------
(* The hotkeys' actions: each is given the memory and returns it changed   *)

\* A write of v; to an unmapped address it fails, in the simulation it maps it.
Put(cells, as, v) ==
    Store(cells, IF session = "simulated" THEN as ELSE as \cap DOMAIN cells, v)

SetCells(cells) ==
    /\ IF session = "game" THEN game' = [game EXCEPT !.cells = cells] /\ UNCHANGED simulated
       ELSE simulated' = cells /\ UNCHANGED game
    /\ UNCHANGED <<session, aim>>

Ammunition == {aim.player + Layout.clip + g : g \in Guns}
                \cup {aim.player + Layout.reserve + g : g \in Guns}

Armor == {aim.armor} \ {NoAddress}

\* trigger_health.
Healed(cells) == Put(cells, {aim.health} \cup Armor, 100)

\* Mutant: one gun too many.
Refilled_Beyond(cells) ==
    Put(cells, (IF aim.player = 0 THEN {}
                ELSE Ammunition \cup {aim.player + Layout.clip + Cardinality(Guns)})
               \cup {aim.ammo}, 999)

\* refill_all_weapons.
Refilled(cells) ==
    Put(cells, (IF aim.player = 0 THEN {} ELSE Ammunition) \cup {aim.ammo}, 999)

\* trigger_high_jump.
Jumped(cells) ==
    IF aim.z \in DOMAIN cells THEN Put(cells, {aim.z}, cells[aim.z] + 10) ELSE cells

\* Mutant: the result of freeze() is not looked at.
ToggleAmmo_Unchecked ==
    IF frozen THEN /\ frozen' = FALSE /\ lock' = "stopped"
                   /\ SetCells(Cells)
    ELSE /\ lock' = IF lock = "none" /\ aim.ammo \in DOMAIN Cells THEN "active" ELSE lock
         /\ frozen' = TRUE
         /\ SetCells(Refilled(Cells))

\* trigger_ammo: freeze() refuses an id it has seen before, and an address it cannot
\* read; the weapons are refilled all the same.
ToggleAmmo ==
    IF frozen THEN /\ frozen' = FALSE /\ lock' = "stopped"
                   /\ SetCells(Cells)
    ELSE /\ frozen' = (lock = "none" /\ aim.ammo \in DOMAIN Cells)
         /\ lock' = IF frozen' THEN "active" ELSE lock
         /\ SetCells(Refilled(Cells))

Trigger(b) ==
    CASE b = "h" -> SetCells(Healed(Cells)) /\ UNCHANGED <<frozen, lock>>
      [] b = "a" -> ToggleAmmo
      [] b = "z" -> /\ Read(Cells, aim.z) <= MaxHeight
                    /\ SetCells(Jumped(Cells)) /\ UNCHANGED <<frozen, lock>>

\* get_player_state: what cannot be read counts as 0.
PlayerState(cells) ==
    LET gun == Read(cells, aim.player + Layout.gun)
        armed == aim.player # 0 /\ gun \in Guns
        have(offset) == ReadOr0(cells, aim.player + offset)
    IN IF aim.player = 0
       THEN [health |-> ReadOr0(cells, aim.health), armor |-> 0, gun |-> -1, reserve |-> 0,
             clip |-> ReadOr0(cells, aim.ammo), z |-> ReadOr0(cells, aim.z),
             valid |-> aim.health \in DOMAIN cells]
       ELSE [health |-> have(Layout.health), armor |-> have(Layout.armor),
             gun |-> IF armed THEN gun ELSE -1, z |-> have(Layout.z),
             clip |-> IF armed THEN have(Layout.clip + gun) ELSE ReadOr0(cells, aim.ammo),
             reserve |-> IF armed THEN have(Layout.reserve + gun) ELSE 0,
             valid |-> aim.player + Layout.health \in DOMAIN cells]

-----------------------------------------------------------------------------
(* --test                                                                  *)

Still == UNCHANGED <<tableVars, worldVars, keyVars, tries, running, plays>>

\* The state is kept, the player hurt and healed.
TestStart ==
    /\ phase = "ready" /\ mode = "test"
    /\ before' = [cells |-> Cells, state |-> PlayerState(Cells), z |-> NoAddress]
    /\ SetCells(Healed(Put(Cells, {aim.health}, 35)))
    /\ Go("test_health")
    /\ Still /\ UNCHANGED <<frozen, lock>>

\* Every check that fails ends the program at once, with the values as they are.
TestHealth ==
    /\ phase = "test_health"
    /\ IF Read(Cells, aim.health) = 100
       THEN ToggleAmmo /\ Go("test_ammo")
       ELSE Return("exit") /\ UNCHANGED <<memVars, frozen>>
    /\ Still /\ UNCHANGED before

TestAmmo ==
    /\ phase = "test_ammo"
    /\ IF Read(Cells, aim.ammo) = 999
       THEN ToggleAmmo /\ Go("test_height")
       ELSE Return("exit") /\ UNCHANGED <<memVars, frozen>>
    /\ Still /\ UNCHANGED before

\* The height is looked at, the player jumps, and the height is looked at again: the
\* game may move the player in between.
TestHeight ==
    /\ phase = "test_height"
    /\ before' = [cells |-> before.cells, state |-> before.state, z |-> Read(Cells, aim.z)]
    /\ Go("test_jump")
    /\ Still /\ UNCHANGED <<memVars, frozen, lock>>

TestJump ==
    /\ phase = "test_jump" /\ SetCells(Jumped(Cells)) /\ Go("test_land")
    /\ Still /\ UNCHANGED <<frozen, lock, before>>

TestLand ==
    /\ phase = "test_land"
    /\ IF /\ aim.z \in DOMAIN Cells /\ before.z # NoAddress
          /\ Cells[aim.z] - before.z >= 10
       THEN Go("test_restore") /\ UNCHANGED lock
       ELSE Return("exit")
    /\ Still /\ UNCHANGED <<memVars, frozen, before>>

\* Mutant: the height is not put back.
Restored_Aloft(cells) ==
    LET s      == before.state
        health == Put(cells, {aim.health}, s.health)
        armor  == Put(health, Armor, s.armor)
        ammo   == Put(armor, {aim.ammo}, s.clip)
    IN IF aim.player = 0 \/ s.gun = -1 THEN ammo
       ELSE Put(Put(ammo, {aim.player + Layout.clip + s.gun}, s.clip),
                {aim.player + Layout.reserve + s.gun}, s.reserve)

\* What orig_state holds is written back.
Restored(cells) ==
    LET s      == before.state
        health == Put(cells, {aim.health}, s.health)
        armor  == Put(health, Armor, s.armor)
        ammo   == Put(armor, {aim.ammo}, s.clip)
        z      == Put(ammo, {aim.z}, s.z)
    IN IF aim.player = 0 \/ s.gun = -1 THEN z
       ELSE Put(Put(z, {aim.player + Layout.clip + s.gun}, s.clip),
                {aim.player + Layout.reserve + s.gun}, s.reserve)

TestRestore ==
    /\ phase = "test_restore"
    /\ SetCells(IF before.state.valid THEN Restored(Cells) ELSE Cells)
    /\ Return("passed")
    /\ Still /\ UNCHANGED <<frozen, before>>

-----------------------------------------------------------------------------
(* The loop: lines from a pipe, or polling keys                            *)

Run ==
    /\ phase = "ready" /\ mode # "test"
    /\ Go(IF mode = "lines" THEN "line" ELSE "hotkey1")
    /\ Still /\ UNCHANGED <<memVars, frozen, lock, before>>

Close ==
    /\ Return("closed")
    /\ Still /\ UNCHANGED <<memVars, frozen, before>>

\* The loop condition: the signals are looked at before each line only.
LineTest ==
    /\ phase = "line"
    /\ IF running THEN /\ Go("reading") /\ Still
                      /\ UNCHANGED <<memVars, frozen, lock, before>>
       ELSE Close

\* The end of the input or 'q'; a binding's letter; another line.
ReadLine ==
    /\ phase = "reading"
    /\ \/ Close
       \/ /\ \/ \E b \in Range(Bindings) : Trigger(b)
             \/ UNCHANGED <<memVars, frozen, lock>>
          /\ Go("line") /\ Still /\ UNCHANGED before

HotkeyPhases == <<"hotkey1", "hotkey2", "hotkey3">>

\* The combination of the entry, or the built-in one; an entry without hotkeys has
\* none.
HasCombo(i) ==
    LET e == <<Health, FirstAmmo, LastCalled("ZCord")>>[i]
    IN e = <<>> \/ e[1].hotkeys # <<>>

\* is_combo_down of a binding that has keys.
ComboDown(i) == HasCombo(i) /\ down[i]

\* Mutant: prev_down is not kept.
LookAtHotkey_Level(i) ==
    /\ phase = HotkeyPhases[i] /\ (i = 1 => running)
    /\ IF build = "windows" /\ ComboDown(i)
       THEN /\ Trigger(Bindings[i]) /\ fired' = [fired EXCEPT ![i] = @ + 1]
       ELSE UNCHANGED <<memVars, frozen, lock, fired>>
    /\ UNCHANGED prev
    /\ Go(IF i = 3 THEN "key" ELSE HotkeyPhases[i + 1])
    /\ UNCHANGED <<tableVars, worldVars, tries, running, plays, down, presses, before>>

\* Windows: a binding fires when its combination is down and was not down last time.
LookAtHotkey(i) ==
    /\ phase = HotkeyPhases[i] /\ (i = 1 => running)
    /\ IF build = "windows" /\ ComboDown(i) /\ ~prev[i]
       THEN /\ Trigger(Bindings[i]) /\ fired' = [fired EXCEPT ![i] = @ + 1]
       ELSE UNCHANGED <<memVars, frozen, lock, fired>>
    /\ prev' = IF build = "windows" /\ HasCombo(i) THEN [prev EXCEPT ![i] = down[i]] ELSE prev
    /\ Go(IF i = 3 THEN "key" ELSE HotkeyPhases[i + 1])
    /\ UNCHANGED <<tableVars, worldVars, tries, running, plays, down, presses, before>>

\* A signal ended the loop.
StopPolling == phase = "hotkey1" /\ ~running /\ Close

\* One key, or none within 50 ms: quit, a binding's letter or control key, another.
PollKey ==
    /\ phase = "key"
    /\ \/ running' = FALSE /\ Return("closed")
          /\ UNCHANGED <<tableVars, worldVars, keyVars, tries, plays, memVars, frozen, before>>
       \/ \E b \in Range(Bindings) : Trigger(b) /\ Go("tick") /\ Still /\ UNCHANGED before
       \/ Go("tick") /\ Still /\ UNCHANGED <<memVars, frozen, lock, before>>

\* Once a second the clip of the gun in hand is filled while the freeze is on.
Tick ==
    /\ phase = "tick"
    /\ LET s == PlayerState(Cells)
           fill == frozen /\ aim.player # 0 /\ s.gun # -1
       IN \/ SetCells(IF fill THEN Put(Cells, {aim.player + Layout.clip + s.gun}, 999)
                      ELSE Cells)
          \/ UNCHANGED memVars
    /\ Go("hotkey1") /\ Still /\ UNCHANGED <<frozen, lock, before>>

-----------------------------------------------------------------------------
(* Beside main                                                             *)

\* handle_signal.
Interrupt ==
    /\ phase \in {"ready", "line", "reading", "key", "tick"} \cup Range(HotkeyPhases) /\ running
    /\ running' = FALSE
    /\ UNCHANGED <<tableVars, worldVars, memVars, keyVars, phase, tries, frozen, lock,
                   before, plays>>

\* The worker writes 999, or stops when the game is gone.
FreezeWrites ==
    /\ lock = "active"
    /\ IF session = "game" /\ ~game.alive THEN lock' = "dead" /\ UNCHANGED memVars
       ELSE SetCells(Put(Cells, {aim.ammo}, 999)) /\ UNCHANGED lock
    /\ UNCHANGED <<tableVars, worldVars, keyVars, phase, tries, frozen, before, running, plays>>

\* The game shoots, hits, moves or changes guns, or exits.
GamePlays ==
    /\ phase \notin {"table", "exit", "passed", "closed"}
    /\ game.alive /\ plays < MaxPlays
    /\ plays' = plays + 1
    /\ LET p == aim.player
       IN \/ \E w \in {<<p + Layout.health, 60>>, <<p + Layout.gun, 0>>,
                       <<p + Layout.clip + Rifle, 19>>, <<p + Layout.z, 7>>} :
                /\ session = "game" /\ w[1] \in DOMAIN game.cells
                /\ game' = [game EXCEPT !.cells[w[1]] = w[2]]
          \/ game' = [game EXCEPT !.cells = <<>>, !.alive = FALSE]
    /\ UNCHANGED <<tableVars, worldVars, keyVars, phase, tries, frozen, lock, before, running,
                   simulated, session, aim>>

KeyMoves ==
    /\ mode = "poll" /\ build = "windows"
    /\ phase \in {"ready", "key", "tick"} \cup Range(HotkeyPhases)
    /\ \E i \in 1..3 :
          /\ down' = [down EXCEPT ![i] = ~@]
          /\ \/ down[i] /\ UNCHANGED presses
             \/ /\ ~down[i] /\ presses[1] + presses[2] + presses[3] < MaxPresses
                /\ presses' = [presses EXCEPT ![i] = @ + 1]
    /\ UNCHANGED <<tableVars, worldVars, memVars, prev, fired, phase, tries, frozen, lock,
                   before, running, plays>>

Next ==
    \/ ParseTable \/ TryNextTable \/ NoTable
    \/ Attach \/ Resolve \/ FallBack \/ Unresolved
    \/ TestStart \/ TestHealth \/ TestAmmo \/ TestHeight \/ TestJump \/ TestLand
    \/ TestRestore
    \/ Run \/ LineTest \/ ReadLine \/ \E i \in 1..3 : LookAtHotkey(i)
    \/ StopPolling \/ PollKey \/ Tick
    \/ Interrupt \/ FreezeWrites \/ GamePlays \/ KeyMoves

Spec == Init /\ [][Next]_vars

-----------------------------------------------------------------------------

Over == phase \in {"exit", "passed", "closed"}

\* The variables have their types, and the addresses are known once the trainer takes
\* commands.
TypeOK ==
    /\ stage \in {"prolog", "body", "epilog", "entries", "parsed", "refused"}
    /\ at \in 1..Len(doc) + 1 /\ (stage = "body" => open # <<>>)
    /\ lock \in {"none", "active", "stopped", "dead"} /\ frozen \in BOOLEAN
    /\ session \in {"none", "game", "simulated"}
    /\ phase \in {"ready", "line", "reading", "key", "tick", "passed", "closed"}
         => NoAddress \notin {aim.health, aim.ammo, aim.z}
    /\ plays \in 0..MaxPlays /\ tries \in 0..MaxTries
    /\ \A i \in 1..3 : presses[i] \in 0..MaxPresses

\* The player is told that ammunition is unlimited exactly while the freeze is
\* registered and was not stopped: no worker writes that the trainer does not know
\* of, it never claims a freeze that freeze() refused, and none is left when main
\* returns (trigger_ammo 714-734, cancel_all 958).
FreezeFollowsTheToggle ==
    /\ lock = "active" => frozen
    /\ frozen /\ ~Over => lock \in {"active", "dead"}
    /\ Over => lock # "active"

\* A combination held down fires once: it has never fired more often than it was
\* pressed (the edge detection of 893-903).
HeldKeyFiresOnce == \A i \in 1..3 : fired[i] <= presses[i]

\* Where orig_state is read, for each of the four addresses it is written back to:
\* at the layout's offsets from the player, or where no player is known at the
\* address itself, which leaves nothing read for the armour.
ReadFrom ==
    LET p   == aim.player
        gun == before.state.gun
    IN IF p = 0 THEN [health |-> aim.health, armor |-> NoAddress, ammo |-> aim.ammo,
                      z |-> aim.z]
       ELSE [health |-> p + Layout.health, armor |-> p + Layout.armor,
             ammo |-> IF gun = -1 THEN aim.ammo ELSE p + Layout.clip + gun,
             z |-> p + Layout.z]

Aims == {aim.health, aim.ammo, aim.z} \cup Armor

\* The resolved addresses that the table puts elsewhere.
Misplaced == {aim[f] : f \in {g \in {"health", "armor", "ammo", "z"} : aim[g] # ReadFrom[g]}}

\* The ammunition of the gun in hand.
InHand ==
    LET gun == before.state.gun
    IN IF aim.player = 0 \/ gun = -1 THEN {}
       ELSE {aim.player + Layout.clip + gun, aim.player + Layout.reserve + gun}

\* Whatever the table, a test that passed and had read the health at its start
\* (orig_state.valid) has put back the resolved addresses that are where orig_state
\* was read, and the ammunition of the gun in hand, even if the game played
\* meanwhile; and if it did not play, of what was mapped before only two things may
\* be left different (795-811): the ammunition of the other guns, which stays at 999,
\* and a resolved address that the table puts elsewhere, which gets what was read at
\* the layout's place.  A test that failed, or had not read the health, puts nothing
\* back, and of it this says nothing.
TestPutsBack ==
    phase = "passed" /\ before.state.valid /\ Cells # <<>> =>
      /\ \A a \in ((Aims \ Misplaced) \cup InHand) \cap DOMAIN before.cells :
           Read(Cells, a) = before.cells[a]
      /\ plays = 0 =>
           \A a \in DOMAIN before.cells \ Misplaced :
             \/ aim.player # 0 /\ a \in Ammunition
             \/ Read(Cells, a) = before.cells[a]

\* A test that passed has left the memory as it was, if the game did not play: "Target
\* memory state restored non-destructively to pre-test values" (815).
TestIsNonDestructive ==
    phase = "passed" /\ plays = 0 =>
      \A a \in DOMAIN before.cells : Read(Cells, a) = before.cells[a]

\* The trainer writes to no memory but the one it resolved its addresses in, the
\* game's never after it has fallen back to the simulation, and there only to those
\* addresses and to the ammunition of the nine guns.
OnlyItsTarget ==
    [][ session' = session /\ plays' = plays =>
          /\ session # "game" => game' = game
          /\ session # "simulated" => simulated' = simulated
          /\ \A a \in DOMAIN Cells' :
               a \in {aim.health, aim.armor, aim.ammo, aim.z} \cup Ammunition
                 \/ Read(Cells', a) = Read(Cells, a) ]_vars
=============================================================================
