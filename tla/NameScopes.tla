----------------------------- MODULE NameScopes -----------------------------
(***************************************************************************)
(* The names of a Calynda program: what the symbol table takes them for    *)
(* (compiler/src/sema/symbol_table*.c), and what they mean in the C that   *)
(* is emitted (compiler/src/hir, compiler/src/c_emit).                     *)
(*                                                                         *)
(* Of a program its imports, its top-level declarations and, of the body   *)
(* of each, the items that concern names are kept, in the order in which   *)
(* the passes meet them: scopes that open and close, parameters, uses, and *)
(* a local binding as "let" before its initialiser and "local" after it.   *)
(* A module is known by the last segment of its name.  Types, the names    *)
(* inside unions, the loop of a tail call (module TailCalls) and lambdas   *)
(* in manual blocks are left out, and a union is not used as a value.      *)
(***************************************************************************)
EXTENDS Integers, Sequences, FiniteSets

CONSTANT Units  \* programs: [imports, decls]

VARIABLES
  unit,      \* the program
  pass,      \* "imports", "predeclare", "analyze", then "accepted" or "rejected"
  at,        \* the import or declaration that comes next
  item,      \* the item of its body that comes next
  imported,  \* table->imports
  scopes,    \* from the root scope inwards: the symbols of each open scope
  found,     \* table->resolutions: [decl, item, means]
  unknown    \* table->unresolved_identifiers: [decl, item]

nameVars == <<unit, pass, at, item, imported, scopes, found, unknown>>
tableVars == <<imported, scopes, found, unknown>>

\* What a name can mean: a parameter or local, a top-level declaration, a
\* package, or a member of one, imported by its name or by a wildcard.
InBody(d, p) == <<"body", d, p, "">>
AtTop(d) == <<"top", d, 0, "">>
PackageNamed(m) == <<"package", 0, 0, m>>
SelectedFrom(m) == <<"selected", 0, 0, m>>
MemberOf(m) == <<"member", 0, 0, m>>
Meaningless == <<"nothing", 0, 0, "">>

DeclIds == DOMAIN unit.decls
BodyOf(d) == unit.decls[d].body

NamesInit ==
  /\ unit \in Units
  /\ pass = "imports" /\ at = 1 /\ item = 1
  /\ imported = <<>>
  /\ scopes = <<<<>>>>
  /\ found = {}
  /\ unknown = {}

-----------------------------------------------------------------------------
(* The symbol table *)

SymbolFor(n, means) == [name |-> n, means |-> means, wildcard |-> FALSE]

\* st_scope_append_symbol
WithSymbol(symbols, n, means) == Append(symbols, SymbolFor(n, means))

\* scope_lookup_local, symbol_table_find_import: the first symbol of that name.
Has(symbols, n) == \E k \in DOMAIN symbols : symbols[k].name = n
FirstOf(symbols, n) == SelectSeq(symbols, LAMBDA s : s.name = n)[1]

\* The symbols of one import; that of a wildcard has no name.
SymbolsOf(i) ==
  CASE i.kind \in {"plain", "alias"} -> <<SymbolFor(i.names[1], PackageNamed(i.module))>>
    [] i.kind = "selective" ->
         [k \in DOMAIN i.names |-> SymbolFor(i.names[k], SelectedFrom(i.module))]
    [] i.kind = "wildcard" ->
         <<[name |-> "", means |-> MemberOf(i.module), wildcard |-> TRUE]>>

Reject == pass' = "rejected" /\ UNCHANGED <<at, item, tableVars>>

\* st_add_import_symbols, one import.
AddImport ==
  /\ pass = "imports" /\ at \in DOMAIN unit.imports
  /\ LET i == unit.imports[at] IN
       IF i.kind # "wildcard"
          /\ \E k \in DOMAIN i.names :
               Has(imported, i.names[k]) \/ \E j \in 1 .. k - 1 : i.names[j] = i.names[k]
       THEN Reject
       ELSE /\ imported' = imported \o SymbolsOf(i)
            /\ at' = at + 1
            /\ UNCHANGED <<pass, item, scopes, found, unknown>>

ImportsAdded ==
  /\ pass = "imports" /\ at \notin DOMAIN unit.imports
  /\ pass' = "predeclare" /\ at' = 1
  /\ UNCHANGED <<item, tableVars>>

Entries == {"start", "boot"}

\* st_predeclare_top_level_bindings, one declaration.  An extern may have the
\* name of an import.
Predeclare ==
  /\ pass = "predeclare" /\ at \in DeclIds
  /\ LET d == unit.decls[at]
         conflict == Has(scopes[1], d.name) \/ (d.kind # "extern" /\ Has(imported, d.name)) IN
       \/ d.kind \in Entries /\ at' = at + 1 /\ UNCHANGED <<pass, item, tableVars>>
       \/ d.kind \notin Entries /\ conflict /\ Reject
       \/ /\ d.kind \notin Entries /\ ~conflict
          /\ scopes' = <<WithSymbol(scopes[1], d.name, AtTop(at))>>
          /\ at' = at + 1
          /\ UNCHANGED <<pass, item, imported, found, unknown>>

Predeclared ==
  /\ pass = "predeclare" /\ at \notin DeclIds
  /\ pass' = "analyze" /\ at' = 1
  /\ UNCHANGED <<item, tableVars>>

\* st_analyze_top_level_decl and what it calls, one item at a time.
Analyzing(do) ==
  /\ pass = "analyze" /\ at \in DeclIds
  /\ item \in DOMAIN BodyOf(at) /\ BodyOf(at)[item].do \in do

NextItem == item' = item + 1 /\ UNCHANGED <<pass, at>>

Functions == {"lambda"} \cup Entries
Scopes == Functions \cup {"block", "manual"}

OpenScope ==
  /\ Analyzing(Scopes)
  /\ scopes' = Append(scopes, <<>>)
  /\ NextItem /\ UNCHANGED <<imported, found, unknown>>

CloseScope ==
  /\ Analyzing({"close"})
  /\ scopes' = SubSeq(scopes, 1, Len(scopes) - 1)
  /\ NextItem /\ UNCHANGED <<imported, found, unknown>>

\* A local binding is not declared before its initialiser is analysed.
BeginLocal == Analyzing({"let"}) /\ NextItem /\ UNCHANGED tableVars

\* st_add_parameter_symbols, st_add_local_symbol
Declare ==
  /\ Analyzing({"parameter", "local"})
  /\ LET n == BodyOf(at)[item].name
         inner == Len(scopes) IN
       IF Has(scopes[inner], n) THEN Reject
       ELSE /\ scopes' = [scopes EXCEPT ![inner] = WithSymbol(@, n, InBody(at, item))]
            /\ NextItem /\ UNCHANGED <<imported, found, unknown>>

\* st_lookup_in_scopes, symbol_table_find_import: no symbol or one.
InScopes(n) ==
  LET having == {k \in DOMAIN scopes : Has(scopes[k], n)} IN
    {FirstOf(scopes[k], n) : k \in {i \in having : \A j \in having : j <= i}}
AmongImports(n) == IF Has(imported, n) THEN {FirstOf(imported, n)} ELSE {}

\* bug: an import hides what is declared in the program
ImportsFirst(n) == IF AmongImports(n) # {} THEN AmongImports(n) ELSE InScopes(n)

\* symbol_table_lookup
SymbolTableLookup(n) == IF InScopes(n) # {} THEN InScopes(n) ELSE AmongImports(n)

\* st_try_wildcard_resolve: the first wildcard import is taken to have every
\* name; the name becomes one of the imports.
Wildcards == {k \in DOMAIN imported : imported[k].wildcard}
ByWildcard(n) ==
  [name |-> n, means |-> imported[CHOOSE k \in Wildcards : \A j \in Wildcards : k <= j].means,
   wildcard |-> TRUE]

FoundAs(means) == found' = found \cup {[decl |-> at, item |-> item, means |-> means]}

\* st_analyze_expression of an identifier.
UseName ==
  /\ Analyzing({"use"})
  /\ LET n == BodyOf(at)[item].name
         symbols == SymbolTableLookup(n) IN
       \/ /\ symbols # {}
          /\ \E s \in symbols : FoundAs(s.means)
          /\ UNCHANGED <<imported, unknown>>
       \/ /\ symbols = {} /\ Wildcards # {}
          /\ FoundAs(ByWildcard(n).means)
          /\ imported' = Append(imported, ByWildcard(n))
          /\ UNCHANGED unknown
       \/ /\ symbols = {} /\ Wildcards = {}
          /\ unknown' = unknown \cup {[decl |-> at, item |-> item]}
          /\ UNCHANGED <<imported, found>>
  /\ NextItem /\ UNCHANGED scopes

NextDeclaration ==
  /\ pass = "analyze" /\ at \in DeclIds /\ item \notin DOMAIN BodyOf(at)
  /\ at' = at + 1 /\ item' = 1
  /\ UNCHANGED <<pass, tableVars>>

\* type_checker_check_program refuses a program with an unresolved identifier.
Analyzed ==
  /\ pass = "analyze" /\ at \notin DeclIds
  /\ pass' = IF unknown = {} THEN "accepted" ELSE "rejected"
  /\ UNCHANGED <<at, item, tableVars>>

NamesNext ==
  /\ UNCHANGED unit
  /\ \/ AddImport \/ ImportsAdded \/ Predeclare \/ Predeclared
     \/ OpenScope \/ CloseScope \/ BeginLocal \/ Declare \/ UseName
     \/ NextDeclaration \/ Analyzed

NamesSpec == NamesInit /\ [][NamesNext]_nameVars

-----------------------------------------------------------------------------
(* What a name means by its place in the source *)

Level(d, p) ==
  LET Count(do) == Cardinality({q \in 1 .. p - 1 : BodyOf(d)[q].do \in do}) IN
    Count(Scopes) - Count({"close"})

\* The scopes around item p, and those of them that a function or a block opens.
Around(d, p) ==
  {q \in 1 .. p - 1 : BodyOf(d)[q].do \in Scopes /\ \A r \in q + 1 .. p : Level(d, r) > Level(d, q)}
Latest(S) == CHOOSE q \in S : \A r \in S : r <= q
InnermostOf(d, p, do) == Latest({0} \cup {q \in Around(d, p) : BodyOf(d)[q].do \in do})

Declarations(d) == {q \in DOMAIN BodyOf(d) : BodyOf(d)[q].do \in {"parameter", "local"}}
SameName(d, p, q) == BodyOf(d)[p].name = BodyOf(d)[q].name

\* The declaration before the use whose scope is still open and that comes last,
\* else the top-level one, else the import of that name, else the first wildcard.
Meaning(d, p) ==
  LET n == BodyOf(d)[p].name
      visible == {q \in Declarations(d) :
                    q < p /\ SameName(d, q, p) /\ Around(d, q) \subseteq Around(d, p)}
      tops == {k \in DeclIds : unit.decls[k].kind \notin Entries /\ unit.decls[k].name = n}
      given(k) == {s \in {SymbolsOf(unit.imports[k])[j] : j \in DOMAIN SymbolsOf(unit.imports[k])} :
                     s.name = n}
      named == UNION {given(k) : k \in DOMAIN unit.imports}
      wild == {k \in DOMAIN unit.imports : unit.imports[k].kind = "wildcard"} IN
    CASE visible # {} -> InBody(d, Latest(visible))
      [] visible = {} /\ tops # {} -> AtTop(CHOOSE k \in tops : TRUE)
      [] visible = {} /\ tops = {} /\ named # {} -> (CHOOSE s \in named : TRUE).means
      [] visible = {} /\ tops = {} /\ named = {} /\ wild # {} ->
           MemberOf(unit.imports[CHOOSE k \in wild : \A j \in wild : k <= j].module)
      [] OTHER -> Meaningless

-----------------------------------------------------------------------------
(* What it means in the emitted C *)

\* Emitted functions: a lambda, start, boot, and for initialisers of bindings
\* __calynda_init_globals, 0 here.  A function captures nothing.
CFunction(d, p) == InnermostOf(d, p, Functions)

\* Braces are those of functions and manual blocks.
CBlock(d, p) == InnermostOf(d, p, Functions \cup {"manual"})

\* The parameters of a lambda are declared and the one of start, those of boot
\* are not.
CDeclared(d) ==
  {q \in Declarations(d) :
     BodyOf(d)[q].do = "parameter" => BodyOf(d)[CFunction(d, q)].do # "boot"}

\* In C a local is declared before its initialiser.
CStart(d, q) ==
  IF BodyOf(d)[q].do = "parameter" THEN q
  ELSE Latest({r \in 1 .. q : BodyOf(d)[r].do = "let" /\ SameName(d, q, r)
                              /\ Around(d, r) = Around(d, q)})

CLocals(d, p) ==
  {q \in CDeclared(d) :
     /\ SameName(d, q, p) /\ CStart(d, q) < p
     /\ CFunction(d, q) = CFunction(d, p)
     /\ CBlock(d, q) = 0 \/ CBlock(d, q) \in Around(d, p)}

\* emit_forward_decls: __cal_m is a macro for the package, whatever the name or
\* the kind of the import of module m.
Macros == {unit.imports[k].module : k \in DOMAIN unit.imports}
GlobalsNamed(n) == {k \in DeclIds : unit.decls[k].kind = "binding" /\ unit.decls[k].name = n}

\* Members by a wildcard are loaded from the package and externs keep their own
\* name; every other name n becomes __cal_n.
IsSpelled(means) ==
  /\ means[1] # "member"
  /\ means[1] = "top" => unit.decls[means[2]].kind # "extern"

CMeaning(d, p, means) ==
  LET n == BodyOf(d)[p].name IN
    CASE ~IsSpelled(means) -> means
      [] IsSpelled(means) /\ n \in Macros -> PackageNamed(n)
      [] IsSpelled(means) /\ n \notin Macros /\ CLocals(d, p) # {} ->
           InBody(d, CHOOSE q \in CLocals(d, p) :
                       \A r \in CLocals(d, p) : CStart(d, r) <= CStart(d, q))
      [] OTHER -> IF GlobalsNamed(n) # {} THEN AtTop(CHOOSE k \in GlobalsNamed(n) : TRUE)
                  ELSE Meaningless

\* What a C compiler accepts: no unknown name, no declaration of a macro's name,
\* no two declarations of a name in one block.
Compiles ==
  /\ \A u \in found : CMeaning(u.decl, u.item, u.means) # Meaningless
  /\ \A m \in Macros : GlobalsNamed(m) = {}
  /\ \A d \in DeclIds : \A q \in CDeclared(d) :
       /\ BodyOf(d)[q].name \notin Macros
       /\ \A r \in CDeclared(d) : q # r /\ SameName(d, q, r) => CBlock(d, q) # CBlock(d, r)

-----------------------------------------------------------------------------
(* Properties *)

\* A use in the initialiser of a local of the same name, in the same function.
InOwnInitialiser(d, p) ==
  \E q \in Declarations(d) :
    SameName(d, q, p) /\ CStart(d, q) < p /\ p < q /\ CFunction(d, q) = CFunction(d, p)

\* A use of a parameter or local of a function around the one that uses it, and
\* of a parameter of boot.
IsCaptured(d, p, means) ==
  means[1] = "body" /\ CFunction(d, means[3]) # CFunction(d, p)
IsUndeclared(d, means) ==
  means[1] = "body" /\ means[3] \notin CDeclared(d)

\* An imported name that is the last segment of the name of another module.
IsTakenByPackage(d, p, means) ==
  /\ means[1] \in {"package", "selected"} /\ BodyOf(d)[p].name \in Macros
  /\ means # PackageNamed(BodyOf(d)[p].name)

\* Scoping is by position: the symbol table gives every use the declaration that
\* comes last before it among those in scope, and no name is declared twice in
\* one scope of an accepted program.  The C that is emitted has fewer scopes and
\* no captures: wherever it compiles, a name keeps its meaning except in exactly
\* four places, the initialiser of its own local; a lambda that captures it, and
\* boot when it is a parameter of it, if a global has the same name; and where an
\* imported name is also that of a package.
NamesKeepTheirMeaning ==
  /\ \A u \in found : u.means = Meaning(u.decl, u.item)
  /\ \A u \in unknown : Meaning(u.decl, u.item) = Meaningless
  /\ pass = "accepted" =>
       /\ \A d \in DeclIds : \A q, r \in Declarations(d) :
            q # r /\ SameName(d, q, r) =>
              InnermostOf(d, q, Scopes) # InnermostOf(d, r, Scopes)
       /\ Compiles =>
            \A u \in found :
              CMeaning(u.decl, u.item, u.means) # u.means <=>
                /\ IsSpelled(u.means)
                /\ \/ InOwnInitialiser(u.decl, u.item)
                   \/ IsCaptured(u.decl, u.item, u.means)
                   \/ IsUndeclared(u.decl, u.means)
                   \/ IsTakenByPackage(u.decl, u.item, u.means)
=============================================================================
