-------------------------------- MODULE Pets --------------------------------
(***************************************************************************)
(* A household of companion pets, experimental/pets.py: hunger, energy and *)
(* affection drift with the clock and move with every interaction; looking *)
(* at a pet (its mood, its status, the persona of a prompt) brings it up   *)
(* to date first.                                                          *)
(*                                                                         *)
(* Abstractions: values are in tenths, the clock is in hours; reactions,   *)
(* the prompt and the turns of a chat are text no pet depends on.          *)
(***************************************************************************)
EXTENDS Integers, Sequences

CONSTANTS
  Names, Fold,          (* names as typed, and in lower case                *)
  DefaultName,          (* of a species                                     *)
  Limit,                (* pets of a household                              *)
  NapHours,             (* lengths of a nap                                 *)
  Pauses,               (* hours nothing happens in                         *)
  MaxHours,             (* bound: the clock                                 *)
  MaxMeetings           (* bound: interactions                              *)

ASSUME PetsAssumption == {Limit, MaxHours, MaxMeetings} \subseteq Nat /\ NapHours \cup Pauses \subseteq Nat

Species == {"dog", "cat"}

(* Per hour, and per interaction                                           *)
Profile ==
  [dog |-> [hungerRate |-> 70, energyRate |-> 50, affectionDecay |-> 10, playCost |-> 180,
            playGain |-> 160, petGain |-> 120, feedGain |-> 140, favouriteGain |-> 224],
   cat |-> [hungerRate |-> 110, energyRate |-> 90, affectionDecay |-> 45, playCost |-> 260,
            playGain |-> 80, petGain |-> 100, feedGain |-> 220, favouriteGain |-> 352]]

VARIABLES
  hours,                (* time.monotonic()                                 *)
  pets,                 (* Household.pets, each with its PetState           *)
  unwatched,            (* the pet of each name, had nobody looked at it    *)
  meetings              (* interactions so far                              *)

petsVars == <<hours, pets, unwatched, meetings>>

Clamp(value) == IF value < 0 THEN 0 ELSE IF value > 1000 THEN 1000 ELSE value

(* mutant: the time decayed is not consumed                                *)
RefreshedAgain(pet) ==
  LET passed == hours - pet.lastTick
      profile == Profile[pet.species]
  IN [pet EXCEPT !.hunger = Clamp(@ + profile.hungerRate * passed),
                 !.energy = Clamp(@ - profile.energyRate * passed),
                 !.affection = Clamp(@ - profile.affectionDecay * passed)]

(* refresh(): tick() and apply_decay()                                     *)
Refreshed(pet) ==
  LET passed == hours - pet.lastTick
      profile == Profile[pet.species]
  IN [pet EXCEPT !.lastTick = hours,
                 !.hunger = Clamp(@ + profile.hungerRate * passed),
                 !.energy = Clamp(@ - profile.energyRate * passed),
                 !.affection = Clamp(@ - profile.affectionDecay * passed)]

Fed(pet, favourite) ==
  LET profile == Profile[pet.species]
  IN [pet EXCEPT !.hunger = Clamp(@ - (IF favourite THEN 450 ELSE 320)),
                 !.energy = Clamp(@ + 80),
                 !.affection = Clamp(@ + (IF favourite THEN profile.favouriteGain ELSE profile.feedGain))]

(* play(): a tired pet declines                                            *)
Played(pet) ==
  LET profile == Profile[pet.species]
  IN IF pet.energy < profile.playCost THEN pet
     ELSE [pet EXCEPT !.energy = Clamp(@ - profile.playCost),
                      !.hunger = Clamp(@ + 90),
                      !.affection = Clamp(@ + profile.playGain)]

Petted(pet) ==
  [pet EXCEPT !.affection = Clamp(@ + Profile[pet.species].petGain), !.energy = Clamp(@ + 30)]

Napped(pet, n) == [pet EXCEPT !.energy = Clamp(@ + 300 * n), !.hunger = Clamp(@ + 40 * n)]

(* Pet.create()                                                            *)
Created(species, name) ==
  [name |-> name, species |-> species, hunger |-> 300, energy |-> 800, affection |-> 500,
   lastTick |-> hours]

Known(name) == \E i \in DOMAIN pets : Fold[pets[i].name] = Fold[name]

(* Household.get(): the first pet of that name                             *)
Get(name) ==
  CHOOSE i \in DOMAIN pets :
    /\ Fold[pets[i].name] = Fold[name]
    /\ \A j \in 1..(i - 1) : Fold[pets[j].name] # Fold[name]

PetsInit == hours = 0 /\ pets = <<>> /\ unwatched = [n \in {} |-> 0] /\ meetings = 0

Pass(n) ==
  /\ hours + n <= MaxHours
  /\ hours' = hours + n
  /\ UNCHANGED <<pets, unwatched, meetings>>

(* adopt(): a full house and a name that is taken are errors               *)
Adopt(species, name) ==
  /\ Len(pets) < Limit
  /\ ~Known(name)
  /\ pets' = Append(pets, Created(species, name))
  /\ unwatched' = [n \in DOMAIN unwatched \cup {name} |->
                     IF n = name THEN Created(species, name) ELSE unwatched[n]]
  /\ UNCHANGED <<hours, meetings>>

(* What an interaction does to the pet of that name                        *)
Meet(name, Do(_)) ==
  /\ Known(name)
  /\ meetings < MaxMeetings
  /\ meetings' = meetings + 1
  /\ pets' = [pets EXCEPT ![Get(name)] = Do(Refreshed(@))]
  /\ unwatched' = [n \in DOMAIN unwatched |->
                     IF Fold[n] = Fold[name] THEN Do(Refreshed(unwatched[n])) ELSE unwatched[n]]
  /\ UNCHANGED hours

Feed(name, favourite) == Meet(name, LAMBDA pet : Fed(pet, favourite))
Play(name) == Meet(name, LAMBDA pet : Played(pet))
PetIt(name) == Meet(name, LAMBDA pet : Petted(pet))
Nap(name, n) == Meet(name, LAMBDA pet : Napped(pet, n))

(* mood, status(), persona(), and with it a turn of PetBot: say() or       *)
(* stream()                                                                *)
Watch(name) ==
  /\ Known(name)
  /\ pets' = [pets EXCEPT ![Get(name)] = Refreshed(@)]
  /\ UNCHANGED <<hours, unwatched, meetings>>

PetsNext ==
  \/ \E n \in Pauses : Pass(n)
  \/ \E species \in Species : \E name \in Names \cup {DefaultName[species]} : Adopt(species, name)
  \/ \E name \in DOMAIN unwatched :
       \/ \E favourite \in BOOLEAN : Feed(name, favourite)
       \/ Play(name)
       \/ PetIt(name)
       \/ \E n \in NapHours : Nap(name, n)
       \/ Watch(name)

PetsSpec == PetsInit /\ [][PetsNext]_petsVars

-----------------------------------------------------------------------------
(* A pet gets hungry with the clock and not with being looked at: however  *)
(* often its state was read in between, and at whatever limit it stood,    *)
(* the next reader sees what the interactions and the hours made of it;    *)
(* and the pet found by a name is the one adopted under it.                *)
WatchingHarmless ==
  \A name \in DOMAIN unwatched : Refreshed(pets[Get(name)]) = Refreshed(unwatched[name])
=============================================================================
