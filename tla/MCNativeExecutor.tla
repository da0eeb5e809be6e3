-------------------------- MODULE MCNativeExecutor --------------------------
(***************************************************************************)
(* Instances of NativeExecutor over four paths and two installed packages. *)
(* A path may move between packages, be shared, and change hands between a *)
(* package that goes and one that comes.                                   *)
(***************************************************************************)
EXTENDS NativeExecutor

pkg(n, v, fs) == [name |-> n, arch |-> "x86_64", evr |-> v, files |-> fs]

a1 == pkg("a", 1, {"p", "q"})
a0 == pkg("a", 0, {"p"})
a2 == pkg("a", 2, {"p", "r"})
b1 == pkg("b", 1, {"q", "s"})    \* shares q with a1
b2 == pkg("b", 2, {"p", "s"})    \* takes p over from a1
c1 == pkg("c", 1, {"q"})
d1 == pkg("d", 1, {"r"})

MCPaths == {"p", "q", "r", "s"}
Db == <<a1, b1>>
TwoA == <<a1, [a1 EXCEPT !.files = {"p", "s"}]>>

row(db, h) == [hnum |-> h, pkg |-> db[h]]
item(type, p, h, priors) == [type |-> type, pkg |-> p, hnum |-> h, priors |-> priors]
erase(db, h) == item("erase", db[h], h, <<>>)

Orders(n) == {o \in [1..n -> 1..n] : IsPermutation(o, n)}
txnOf(db, items, order, fixed, flags) ==
    [db |-> db, items |-> items, order |-> order, fixed |-> fixed, flags |-> flags]

\* Lists of up to two rows as priors, valid or not.
PriorLists(db) ==
    {<<>>, <<row(db, 1), row(db, 1)>>}
    \cup {<<row(db, h)>> : h \in Indices(db)}
    \cup {<<row(db, g), row(db, h)>> : g, h \in {1, 2}}

\* Recorded transactions of two items, of every shape; the executor has to
\* refuse the ones it cannot carry out.
FixedItems(db) ==
    {item("install", c1, 0, <<>>)}
    \cup {item("upgrade", a2, 0, priors) : priors \in PriorLists(db)}
    \cup {item("downgrade", b1, 0, <<row(db, h)>>) : h \in {1, 2}}
    \cup {item("obsolete", p, 0, priors) : p \in {a2, c1}, priors \in PriorLists(db)}
    \cup {erase(db, h) : h \in {1, 2}}

FixedTxns ==
    {txnOf(Db, items, o, TRUE, {}) :
        items \in FixedItems(Db) \X FixedItems(Db), o \in Orders(2)}
    \cup {txnOf(Db, <<>>, <<>>, TRUE, {}),
          txnOf(Db, <<erase(Db, 1), erase(Db, 2)>>, <<1, 1>>, TRUE, {})}

\* Three items that all have a claim on the two rows.
Claims == {<<row(Db, 1)>>, <<row(Db, 2)>>, <<row(Db, 1), row(Db, 2)>>,
           <<row(Db, 2), row(Db, 1)>>}

ThreeTxns ==
    {txnOf(Db, items, o, TRUE, {}) :
        items \in {item("upgrade", a2, 0, priors) : priors \in Claims}
                  \X {item("upgrade", b2, 0, priors) : priors \in Claims}
                  \X {item("obsolete", c1, 0, priors) : priors \in Claims},
        o \in Orders(3)}

\* A recording made against another database, also one whose package of the same
\* NEVRA had other files.
Recorded == {a1, [a1 EXCEPT !.files = {"p", "s"}], b1, c1}

StaleTxns ==
    {txnOf(Db, <<item("upgrade", a2, 0, <<[hnum |-> h, pkg |-> p]>>)>>, <<1>>, TRUE, {}) :
        h \in 1..3, p \in Recorded}
    \cup {txnOf(Db, <<item("erase", p, h, <<>>)>>, <<1>>, TRUE, {}) :
        h \in 1..3, p \in Recorded}

\* Transactions planned here: upgrades, reinstalls, installs, downgrades (an
\* install and an erase) and removals, with every flag.
Requests(db) ==
    {item(type, p, 0, <<>>) :
        type \in {"install", "upgrade", "reinstall"}, p \in {a0, a1, a2, b2, d1}}
    \cup {erase(db, h) : h \in Indices(db)}

\* The priors the planner finds for a request.
Plan(db, items) ==
    [i \in Indices(items) |->
        [items[i] EXCEPT !.priors =
            SelectSeq([h \in Indices(db) |-> row(db, h)],
                      LAMBDA r : r.hnum \in SelectedRows(db, items, i))]]

Natives(db, n, flagSets) ==
    {t \in {txnOf(db, Plan(db, items), o, FALSE, f) :
               items \in [1..n -> Requests(db)], o \in Orders(n), f \in flagSets} :
        NativePlanned(t.db, t.items, t.order)}

NativeTxns == Natives(Db, 2, {{}}) \cup Natives(TwoA, 2, {{}})

\* The same with the flags that leave out a part of the work.
FlagTxns == Natives(Db, 2, {{"TEST"}, {"NODB"}, {"JUSTDB"}})

RecordedTxns == FixedTxns \cup ThreeTxns \cup StaleTxns
PlannedTxns == NativeTxns \cup FlagTxns

AllTxns == RecordedTxns \cup PlannedTxns
=============================================================================
