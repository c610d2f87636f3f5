--------------------------------- MODULE Paths ---------------------------------
(***************************************************************************)
(* io_path and io_file: TPath, the path of a file as a list of components, *)
(* with the text it keeps for the calls of the kernel, and the creation of *)
(* directories along it.                                                   *)
(*                                                                         *)
(* A text is a sequence of names and separators; "" as the first component *)
(* makes a path absolute.  External: the tree of directories, without      *)
(* links, and the kernel, whose calls may fail.                            *)
(***************************************************************************)
EXTENDS Integers, SequencesExt

CONSTANTS Start,      \* texts a program begins with
          Args,       \* paths it gives to the operations
          Cwd,        \* external: place of the current directory
          MaxLength   \* bound: components of a path

VARIABLES path,     \* components
          cached,   \* cached_cstr
          dirs,     \* external: places of the directories that exist
          made,     \* history: the last creation succeeded
          usable    \* discipline: see MakeAbsolute and CreateAsDirectory

vars == <<path, cached, dirs, made, usable>>

SEPERATOR == "/"
PARENT_DIR == ".."
CURRENT_DIR == "."
NoText == <<"none">>

-----------------------------------------------------------------------------
(* Components and texts *)

IsAbsolute(p) == p # <<>> /\ p[1] = ""
\* Validate(): of io_path, and of io_file.
Valid(p) == \A i \in DOMAIN p : p[i] # SEPERATOR /\ (p[i] = "" => i = 1)
Validate(p) == /\ Valid(p)
               /\ IsAbsolute(p) => Len(SelectSeq(p, LAMBDA c : c = PARENT_DIR)) <= Len(p) \div 2

Name(c) == IF c = "" THEN <<>> ELSE <<c>>
\* operator TString()
Written(p) == CASE p = <<>> -> <<CURRENT_DIR>>
                 [] p = <<"">> -> <<SEPERATOR>>
                 [] OTHER -> FoldLeft(LAMBDA t, c : t \o <<SEPERATOR>> \o Name(c), Name(p[1]), Tail(p))
\* TPath(const TString&)
Split(t) == FoldLeft(LAMBDA p, c : IF c = SEPERATOR THEN Append(p, "") ELSE [p EXCEPT ![Len(p)] = c], <<"">>, t)
Parse(t) == CASE t = <<>> -> <<>>
              [] t = <<SEPERATOR>> -> <<"">>
              [] OTHER -> Split(t)

\* External: where a path leads from a place.
Walk(place, p) == FoldLeft(LAMBDA at, c : CASE c = "" -> <<>>
                                           [] c = CURRENT_DIR -> at
                                           [] c = PARENT_DIR -> IF at = <<>> THEN at ELSE Front(at)
                                           [] OTHER -> Append(at, c), place, p)
Place(p) == Walk(Cwd, p)

-----------------------------------------------------------------------------
(* Operations: what they leave, and whether they throw; without a component,
   Remove() throws *)

Done(p) == [ok |-> TRUE, path |-> p]
Threw(p) == [ok |-> FALSE, path |-> p]
Count(p) == Len(p)
Without(p, from, n) == SubSeq(p, 1, from - 1) \o SubSeq(p, from + n, Len(p))

\* += and -=
Plus(p, rhs) == IF IsAbsolute(rhs) THEN Threw(p) ELSE Done(p \o rhs)
Minus(p, rhs) ==
    IF IsAbsolute(rhs) \/ Count(rhs) > Count(p) \/ ~IsSuffix(rhs, p) THEN Threw(p)
    ELSE Done(SubSeq(p, 1, Count(p) - Count(rhs)))
CountCommonPrefix(p, other) == Len(LongestCommonPrefix({p, other}))
Rebase(p, old_prefix, new_prefix) ==
    IF p = <<>> \/ CountCommonPrefix(p, old_prefix) # Count(old_prefix) THEN Threw(p)
    ELSE Done(new_prefix \o Without(p, 1, Count(old_prefix)))
StripCommonPrefix(p, other) == IF p = <<>> THEN Threw(p) ELSE Done(Without(p, 1, CountCommonPrefix(p, other)))
Truncate(p, n) == IF n > Count(p) \/ p = <<>> THEN Threw(p) ELSE Done(SubSeq(p, 1, Count(p) - n))
Parent(p) == CASE p = <<>> -> <<PARENT_DIR>>
               [] p = <<"">> -> p
               [] OTHER -> Truncate(p, 1).path
MakeRelativeTo(p, reference) ==
    LET r == StripCommonPrefix(p, reference) IN
    [r EXCEPT !.path = IF r.ok THEN [i \in 1..Count(reference) - CountCommonPrefix(p, reference) |-> PARENT_DIR] \o @ ELSE @]

\* Simplify(): without "." and without a name that ".." takes back; it throws in
\* the midst of it when it comes to the root.
Simplified_OneStep(r, c) ==
    IF c = PARENT_DIR /\ r.path # <<>> THEN [r EXCEPT !.path = Front(@)] ELSE [r EXCEPT !.path = Append(@, c)]
Simplified(r, c) ==
    IF ~r.ok \/ c # PARENT_DIR \/ r.path = <<>> \/ Last(r.path) = PARENT_DIR THEN [r EXCEPT !.path = Append(@, c)]
    ELSE IF r.path = <<"">> THEN Threw(Append(r.path, c))
    ELSE [r EXCEPT !.path = Front(@)]
Simplify(p) ==
    IF ~Validate(p) THEN Threw(p)
    ELSE FoldLeft(Simplified, Done(<<>>), SelectSeq(p, LAMBDA c : c # CURRENT_DIR))

\* ReplaceComponent(), on a copy; an index below 0 is from the end, and Insert()
\* takes it as one of what Remove() has left.
At(i, n) == IF i >= 0 THEN i ELSE IF -i > n THEN n + i + 1 ELSE n + i
ReplaceComponent(p, index, new_path) ==
    LET left == Without(p, At(index, Count(p)) + 1, 1)
        to == At(index, Count(left))
        new == SubSeq(left, 1, to) \o new_path \o SubSeq(left, to + 1, Count(left))
        simple == Simplify(new)
    IN IF \/ index # 0 /\ IsAbsolute(new_path)
          \/ index >= Count(p) \/ -index > Count(p)
          \/ ~Validate(new) \/ ~simple.ok THEN Threw(p)
       ELSE simple

-----------------------------------------------------------------------------
(* A program with one path *)

\* An operation that does not throw drops the text; one that does leaves it.
\* What was created for an earlier path is forgotten here.
Existing == {SubSeq(Cwd, 1, k) : k \in 0..Len(Cwd)}
Changes(r) == /\ usable /\ Count(r.path) <= MaxLength
              /\ path' = r.path /\ cached' = IF r.ok THEN NoText ELSE cached
              /\ made' = FALSE /\ dirs' = Existing /\ UNCHANGED usable

Add == \E q \in Args : Changes(Plus(path, q)) \/ Changes(Minus(path, q))
\* Rebase() does not look whether it puts the root in the midst of a path.
Rebases == \E q, r \in Args : /\ IsAbsolute(path) => IsAbsolute(q) \/ r = <<>>
                              /\ Changes(Rebase(path, q, r))
Shortens_Kept == path # <<>> /\ usable /\ path' = Truncate(path, 1).path /\ made' = FALSE /\ UNCHANGED <<cached, dirs, usable>>
Shortens == Changes(Truncate(path, 1)) \/ Changes(Done(Parent(path))) \/ \E q \in Args : Changes(StripCommonPrefix(path, q))
\* Neither does MakeRelativeTo(), with paths of two kinds.
Relates == \E q \in Args : IsAbsolute(path) = IsAbsolute(q) /\ Changes(MakeRelativeTo(path, q))
Simplifies == Changes(Simplify(path))
Replaces == \E q \in Args, index \in -2..2 : Changes(ReplaceComponent(path, index, q))
\* MakeAbsolute() keeps the text, which then is of another path: a program must
\* not have asked for it.
MakeAbsolute == /\ usable /\ ~IsAbsolute(path) /\ cached = NoText /\ Count(path) + Len(Cwd) + 1 <= MaxLength
                /\ path' = <<"">> \o Cwd \o path /\ made' = FALSE
                /\ UNCHANGED <<cached, dirs, usable>>

\* operator const char*(), as IsMountpoint() and Type() need it.
Text == IF cached = NoText THEN Written(path) ELSE cached
AsText == /\ usable /\ cached' = Text /\ UNCHANGED <<path, dirs, made, usable>>

\* mkdir() of each leading part, which may exist; one that fails leaves the text
\* cut off behind it, so that the path must not be used any more.
Leading(p) == {SubSeq(p, 1, k) : k \in 1..Len(p)} \ {<<"">>}
CreateAsDirectory_Last == /\ usable /\ cached' = Text /\ dirs' = dirs \cup {Place(Parse(Text))}
                          /\ made' = TRUE /\ UNCHANGED <<path, usable>>
CreateAsDirectory ==
    /\ usable
    /\ \/ /\ dirs' = dirs \cup {Place(p) : p \in Leading(Parse(Text))}
          /\ cached' = Text /\ made' = TRUE /\ UNCHANGED <<path, usable>>
       \/ \E k \in 1..Len(Parse(Text)) :
             /\ dirs' = dirs \cup {Place(p) : p \in Leading(SubSeq(Parse(Text), 1, k - 1))}
             /\ cached' = Written(SubSeq(Parse(Text), 1, k)) /\ made' = FALSE /\ usable' = FALSE
             /\ UNCHANGED path

Init == /\ path \in {Parse(t) : t \in Start} /\ cached = NoText
        /\ dirs = Existing /\ made = FALSE /\ usable = TRUE
Next == \/ Add \/ Rebases \/ Shortens \/ Relates \/ Simplifies \/ Replaces \/ MakeAbsolute
        \/ AsText \/ CreateAsDirectory
Spec == Init /\ [][Next]_vars

-----------------------------------------------------------------------------
(* Properties *)

\* The kernel is asked for the place the path leads to, whatever was done to the
\* path since its text was made.
TextCurrent == usable /\ cached # NoText => Place(Parse(cached)) = Place(path)
\* No operation puts an empty component, or the root, in the midst.
WellFormed == Valid(path) /\ (path # <<>> => Parse(Written(path)) = path)
\* Added and taken away, moved to another prefix and back: the same path.
GoesBack == \A q \in Args : ~IsAbsolute(q) =>
              /\ Minus(Plus(path, q).path, q) = Done(path)
              /\ path # <<>> => Rebase(Rebase(path, <<>>, q).path, q, <<>>) = Done(path)
\* A simplified path leads where the path led, and has nothing left to simplify.
SimplifyKeeps ==
    \A r \in {Simplify(path)} :
        r.ok => /\ Place(r.path) = Place(path)
                /\ \A i \in DOMAIN r.path : /\ r.path[i] # CURRENT_DIR
                                            /\ r.path[i] = PARENT_DIR /\ i > 1 => r.path[i - 1] = PARENT_DIR
\* A path made relative leads there from its reference, when both are of a kind
\* and nothing of the reference goes back.
RelativeLeads ==
    \A q \in Args : \A common \in {CountCommonPrefix(path, q)} :
        (path # <<>> /\ IsAbsolute(path) = IsAbsolute(q)
         /\ \A i \in common + 1..Len(q) : q[i] \notin {PARENT_DIR, CURRENT_DIR})
        => Walk(Place(q), MakeRelativeTo(path, q).path) = Place(path)
\* A directory that was created is there, and so is every one above it.
Created == made => \A k \in 0..Len(Place(path)) : SubSeq(Place(path), 1, k) \in dirs
PathsExact == TextCurrent /\ WellFormed /\ GoesBack /\ SimplifyKeeps /\ RelativeLeads /\ Created
=============================================================================
