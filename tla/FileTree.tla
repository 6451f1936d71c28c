------------------------------- MODULE FileTree -------------------------------
(* The paths of base/fs.h and base/unix/fs.cc, over the calls of the system  *)
(* they make.  A path is a sequence of names and slashes; the program is in  *)
(* the root of the tree, which maps the sequences of names that are there to *)
(* what they are, a link to the names it leads to.                           *)
EXTENDS Naturals, Sequences, SequencesExt

CONSTANTS PathTexts,       \* the paths
          Targets,     \* those that links lead to
          MaxLinks     \* bound: links on a way, 40 in the system

VARIABLES tree, did    \* did: the last call, what it gave, and the tree before
treeVars == <<tree, did>>

Dir == [kind |-> "dir", to |-> <<>>]
File == [kind |-> "file", to |-> <<>>]
Absent == [kind |-> "absent", to |-> <<>>]
ElementsOf(text) == SelectSeq(text, LAMBDA x : x # "/")
EndsInSlash(text) == text # <<>> /\ Last(text) = "/"

\* What is at the names at, in the tree t; NoWay is not the way to anything.
NoWay == <<"/">>
At(t, at) == IF at = <<>> THEN Dir ELSE IF at \in DOMAIN t THEN t[at] ELSE Absent
RECURSIVE Way(_, _, _, _, _)
Way(t, at, names, whole, links) ==
    LET next == Append(at, Head(names))
        it == At(t, next)
    IN IF names = <<>> THEN at
       ELSE IF Len(names) = 1 /\ ~(whole /\ it.kind = "link") THEN next
       ELSE CASE it.kind = "dir" -> Way(t, next, Tail(names), whole, links)
              [] it.kind = "link" /\ links > 0 -> Way(t, <<>>, it.to \o Tail(names), whole, links - 1)
              [] OTHER -> NoWay
\* A call that makes or removes looks at the last name itself; lstat, past
\* a link that has a slash after it.
Place(t, text) == IF text = <<>> THEN NoWay ELSE Way(t, <<>>, ElementsOf(text), FALSE, MaxLinks)
Seen(t, text) == IF EndsInSlash(text) THEN Way(t, <<>>, ElementsOf(text), TRUE, MaxLinks) ELSE Place(t, text)
lstat(t, text) ==
    LET it == At(t, Seen(t, text)) IN
    IF EndsInSlash(text) /\ it.kind # "dir" THEN Absent ELSE it
Under(t, at) == {x \in DOMAIN t : IsPrefix(at, x)}
Without(t, gone) == [x \in DOMAIN t \ gone |-> t[x]]
With(t, at, what) == [x \in DOMAIN t \cup {at} |-> IF x = at THEN what ELSE t[x]]
Ok(t) == [ok |-> TRUE, tree |-> t]
Failed(t) == [ok |-> FALSE, tree |-> t]

\* Something new has no name yet in a directory that is there.
Free(t, text) ==
    LET at == Place(t, text) IN
    at \notin {NoWay, <<>>} /\ At(t, at) = Absent /\ At(t, Front(at)) = Dir
sys_mkdir(t, text) == IF Free(t, text) THEN Ok(With(t, Place(t, text), Dir)) ELSE Failed(t)
sys_symlink(t, to, text) ==
    IF Free(t, text) /\ ~EndsInSlash(text)
    THEN Ok(With(t, Place(t, text), [kind |-> "link", to |-> ElementsOf(to)])) ELSE Failed(t)
sys_remove(t, text, kinds) ==
    LET at == Place(t, text) IN
    IF at # <<>> /\ At(t, at).kind \in kinds /\ Under(t, at) = {at}
    THEN Ok(Without(t, {at})) ELSE Failed(t)
\* What a link with a slash leads to is emptied, and stays.
rm_rf(t, text) ==
    LET at == Seen(t, text) IN
    IF ~(lstat(t, text).kind \in {"dir", "file", "link"}) \/ at = <<>> THEN t
    ELSE Without(t, Under(t, at) \ (IF at = Place(t, text) THEN {} ELSE {at}))

exists(t, text) == lstat(t, text) # Absent
isdir(t, text) == lstat(t, text).kind = "dir"

(* What is before the last slash is made first, when it is not there.       *)
LastSlash(text) == SelectLastInSeq(text, LAMBDA x : x = "/")
\* A mutant: the parents are made whether they are there or not.
RECURSIVE mkdir_always(_, _, _)
mkdir_always(t, text, p) ==
    LET parent == SubSeq(text, 1, LastSlash(text) - 1)
        made == mkdir_always(t, parent, TRUE)
    IN IF ~p \/ LastSlash(text) = 0 THEN sys_mkdir(t, text)
       ELSE IF made.ok THEN sys_mkdir(made.tree, text) ELSE made
RECURSIVE mkdir(_, _, _)
mkdir(t, text, p) ==
    LET parent == SubSeq(text, 1, LastSlash(text) - 1)
        made == mkdir(t, parent, TRUE)
    IN IF ~p \/ LastSlash(text) = 0 \/ exists(t, parent) THEN sys_mkdir(t, text)
       ELSE IF made.ok THEN sys_mkdir(made.tree, text) ELSE made

(* What is not there is removed; with rf, the shell does it, and what it    *)
(* says is not looked at.                                                   *)
remove(t, text, rf) ==
    IF ~exists(t, text) THEN Ok(t)
    ELSE IF rf THEN Ok(rm_rf(t, text))
    ELSE sys_remove(t, text, IF isdir(t, text) THEN {"dir"} ELSE {"file", "link"})
symlink(t, to, text) == sys_symlink(remove(t, text, FALSE).tree, to, text)

TreeInit == tree \in [{<<"a">>} -> {Dir, File}] /\ did = [op |-> "none"]
Did(op, text, r) ==
    tree' = r.tree /\ did' = [op |-> op, text |-> text, ok |-> r.ok, before |-> tree]
TreeNext ==
    \E text \in PathTexts :
        \/ Did("mkdir", text, mkdir(tree, text, FALSE))
        \/ Did("mkdir -p", text, mkdir(tree, text, TRUE))
        \/ Did("remove", text, remove(tree, text, FALSE))
        \/ Did("remove -rf", text, remove(tree, text, TRUE))
        \/ \E to \in Targets : Did("symlink", text, symlink(tree, to, text))

Plain(text) == text # <<>> /\ text[1] # "/" /\ \A i \in DOMAIN text : text[i] = "/" => i < Len(text) /\ text[i + 1] # "/"
Ancestors(text) == {SubSeq(text, 1, i) : i \in {i \in DOMAIN text : i = Len(text) \/ text[i + 1] = "/"}}
\* A tree has no branch without its parent, whatever is called; a directory
\* with its parents is made exactly when the path is plain, is not there, and
\* leads through directories; what was to be removed is not there, but for
\* a directory that holds something when that is said, and for a link that is
\* named with a slash, of which the directory is emptied.
TreeIsRight ==
    /\ \A at \in DOMAIN tree : At(tree, Front(at)) = Dir
    /\ did.op = "mkdir -p" =>
         /\ did.ok => isdir(tree, did.text) /\ ~exists(did.before, did.text)
         /\ Plain(did.text) =>
              (did.ok <=> /\ ~exists(did.before, did.text)
                          /\ \A x \in Ancestors(did.text) \ {did.text} :
                                ~exists(did.before, x) \/ isdir(did.before, x \o <<"/">>))
         /\ did.ok => Plain(did.text) \/ exists(did.before, SubSeq(did.text, 1, LastSlash(did.text) - 1))
    /\ did.op \in {"remove", "remove -rf"} =>
         LET at == Seen(did.before, did.text) IN
         /\ did.ok => \/ ~exists(tree, did.text) \/ at = <<>>
                      \/ at # Place(did.before, did.text) /\ Under(tree, at) = {at}
         /\ did.op = "remove -rf" => did.ok
         /\ ~did.ok => tree = did.before /\ exists(tree, did.text)
         /\ \A x \in DOMAIN did.before \ DOMAIN tree : IsPrefix(at, x)
    /\ did.op = "symlink" /\ did.ok => lstat(tree, did.text).kind = "link"
===============================================================================
