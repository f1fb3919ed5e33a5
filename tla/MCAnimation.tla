---------------------------- MODULE MCAnimation -----------------------------
(* Small instances of Animation: what the game's own callers register. *)
EXTENDS Animation

CONSTANTS a, b, shot, nil

D_(kind, owner, delay) ==
  [kind |-> kind, owner |-> owner, delay |-> delay, forced |-> kind = "hide", target |-> 0]
Forced == [D_("callback", nil, -1) EXCEPT !.forced = TRUE]
Part(request, priority, descs) == [request |-> request, priority |-> priority, descs |-> descs]

\* _dude_fidget
Fidget(o) == <<Part({"insignificant"}, FALSE, <<D_("animate", o, 0)>>)>>
\* walking up to something and using it
Use(o) == <<Part({}, FALSE, <<D_("move", o, 0), Forced, D_("instant", o, -1)>>)>>
\* an attack that makes o fall while p still swings
Attack(p, o) == <<Part({"reserved"}, TRUE, <<D_("animate", p, 0), D_("animate", o, 1), Forced>>)>>
\* a projectile
Shoot(o, s) == <<Part({"reserved"}, TRUE, <<D_("animate", o, 0), D_("move", s, 0), D_("hide", s, -1)>>)>>
\* an attack that also hits a bystander
Sweep(p, o) == <<Part({"reserved"}, TRUE, <<D_("animate", p, 0), D_("ping", nil, 0)>>),
                 Part({"reserved"}, TRUE, <<D_("animate", o, 0)>>)>>

\* moving while another animation of the same object starts, and one that never ends
Charge(o) == <<Part({}, FALSE, <<D_("move", o, 0), D_("animate", o, 0)>>)>>
Burn(o) == <<Part({}, FALSE, <<D_("forever", o, 0), D_("fade", o, -1)>>)>>

PeacePlans == {Fidget(a), Charge(a), Burn(b)}
ErrandPlans == {Use(a), Use(b), Shoot(a, shot)}
CombatPlans == {Attack(a, b), Shoot(b, shot), Sweep(b, a)}
=============================================================================
