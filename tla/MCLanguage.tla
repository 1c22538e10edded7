------------------------------ MODULE MCLanguage -------------------------------
(***************************************************************************)
(* The inputs of Compiler: expressions written from trees, functions made  *)
(* of all pairs of some statements, projects that import in every way, and *)
(* programs for a host.                                                    *)
(***************************************************************************)
EXTENDS Compiler

-----------------------------------------------------------------------------
Files == [main |-> "main.cra", a |-> "a.cra", b |-> "b.cra", config |-> "config.cra"]

\* A project of these texts, by path; the entry is main.
Project(texts) ==
  [command |-> "run", entry |-> "main", inside |-> TRUE, filename |-> Files,
   regular |-> DOMAIN texts,
   texts |-> [p \in Paths |-> IF p \in DOMAIN texts THEN texts[p] ELSE ""],
   configuration |-> <<>>, overrides |-> Absent, response |-> "1", tree |-> <<>>]
Alone(text) == Project([main |-> text])
Hosted(text) == [Alone(text) EXCEPT !.command = "host"]

-----------------------------------------------------------------------------
(* Expressions of two operators, in either shape.                          *)

Literal(value) ==
  IF value \in {"true", "false"} THEN BooleanLiteralExpression(value)
  ELSE IntegerLiteralExpression(value)
Shapes(first, second, x, y, z) ==
  {BinaryExpression(BinaryExpression(x, first, y), second, z),
   BinaryExpression(x, first, BinaryExpression(y, second, z))}
Binaries(operations, xs, ys, zs) ==
  UNION {Shapes(first, second, Literal(x), Literal(y), Literal(z)) :
           first \in operations, second \in operations, x \in xs, y \in ys, z \in zs}

\* The smallest number of the width has no literal.
Least == BinaryExpression(UnaryExpression("Negate", Literal("7")), "Subtract", Literal("1"))
Edges ==
  {BinaryExpression(Least, operation, UnaryExpression("Negate", Literal(n))) :
     operation \in ArithmeticOperators, n \in {"1", "2"}}
  \cup {BinaryExpression(UnaryExpression("Negate", Literal(n)), operation, Least) :
          operation \in ArithmeticOperators, n \in {"1", "7"}}
  \cup {UnaryExpression("Negate", Least), UnaryExpression("Negate", UnaryExpression("Negate", Literal("7"))),
        UnaryExpression("Not", BinaryExpression(Literal("1"), "Less", Literal("2"))),
        UnaryExpression("Negate", Literal("8"))}

\* A comparison, decided on the left or not, in front of a division by zero.
Lazy ==
  {BinaryExpression(Literal(x), logical,
     BinaryExpression(BinaryExpression(Literal("1"), "Divide", Literal("0")), "Equal", Literal("1"))) :
     logical \in LogicalOperators, x \in {"true", "false"}}

Trees ==
  Binaries(ArithmeticOperators, {"1", "7"}, {"0", "7"}, {"1", "2"})
  \cup Binaries(ArithmeticOperators \cup EqualityOperators \cup OrderOperators, {"3"}, {"2"}, {"1"})
  \cup Binaries(LogicalOperators \cup EqualityOperators, {"true"}, {"false"}, {"true"})
  \cup Binaries(BinaryOperators, {"2"}, {"false"}, {"1"})
  \cup Edges \cup Lazy
Expressions ==
  {[Alone("print(" \o Written(tree, 0) \o ")") EXCEPT !.tree = <<tree>>] : tree \in Trees}

-----------------------------------------------------------------------------
(* Functions of two statements, and a caller of each.                      *)

Statements ==
  {"re x", "re y", "re c", "var y: Int = x", "var y: Bool = c", "var x: Int = y", "print(y)"}
Branches == {"re x", "re y", "var y: Bool = c"}
Ifs ==
  {"if (c) { " \o then \o " }" : then \in Branches}
  \cup {"if (c) { " \o then \o " } else { " \o else \o " }" : then \in Branches, else \in Branches}
Bodies ==
  {first \o " " \o second : first \in Statements \cup Ifs, second \in Statements \cup Ifs}
Functions ==
  {Hosted("var y: Int = 2 fun f(x: Int, c: Bool): Int { " \o body \o
          " } fun g(x: Int, c: Bool): Int { re f(x, c) + 1 }") : body \in Bodies}

-----------------------------------------------------------------------------
(* Projects of several files.                                              *)

Leaf == "fun leaf(x: Int): Int { re x }"
Importing(name, text) == "import #" \o name \o "# " \o text
Main == "print(leaf(1))"
ImportGraphs ==
  {Project([main |-> Importing("a.cra", Main), a |-> Leaf]),
   Project([main |-> Importing("a.cra", Importing("b.cra", Main)), a |-> Importing("b.cra", "model M(id: Int)"), b |-> Leaf]),
   Project([main |-> Importing("a.cra", Importing("b.cra", Main)), a |-> "model M(id: Int)", b |-> Leaf]),
   Project([main |-> Importing("a.cra", Main), a |-> Importing("b.cra", "var u: Int = v"), b |-> "var v: Int = 1 " \o Leaf]),
   Project([main |-> Importing("a.cra", Main), a |-> Importing("b.cra", Leaf), b |-> Importing("a.cra", "model M(id: Int)")]),
   Project([main |-> Importing("a.cra", Main), a |-> Importing("main.cra", Leaf)]),
   Project([main |-> Importing("b.cra", Main), a |-> Leaf]),
   Project([main |-> Importing("config.cra", Main), config |-> "config { }"]),
   Project([main |-> Importing("a.cra", Main), a |-> Leaf \o " print(leaf(1))"]),
   Project([main |-> Importing("a.cra", Main), a |-> Leaf \o " config { }"]),
   Project([main |-> Importing("a.cra", Main), a |-> "fun leaf("]),
   Project([main |-> Importing("a.cra", Leaf), a |-> Leaf]),
   [Project([main |-> Importing("a.cra", Main), a |-> Leaf, b |-> Leaf])
      EXCEPT !.filename = [Files EXCEPT !.b = "a.cra"]],
   [Project([main |-> Main]) EXCEPT !.inside = FALSE],
   Project([main |-> Importing("a.cra", Main), a |-> Importing("b.cra", Leaf),
            b |-> Importing("config.cra", "model M(id: Int)")]),
   Project([main |-> Importing("a.cra", Main), a |-> Leaf, b |-> Leaf \o Leaf \o Leaf \o Leaf \o Leaf \o Leaf]),
   Project([main |-> Importing("a.cra", Main), a |-> Leaf, b |-> Leaf, config |-> "config { }"])}

-----------------------------------------------------------------------------
(* Programs with a configuration, with and without a host.                 *)

Request(url) == "CrossaRequest { method: GET, url: \"" \o url \o "\" }"
Users ==
  "model User(id: Int, tags: List<String>) "
  \o "fun user(name: String): User { re CrossaRequest { method: POST, path: \"/users/#name\", "
  \o "headers: { \"X-A\": \"b\" }, body: { name: name, n: [1, true, null] }, timeout: 5, "
  \o "auth: \"main\", coalesce: true } } "
Configured(text, configuration) == [Alone(text) EXCEPT !.configuration = <<configuration>>]
Base == "config { baseUrl: \"http://h\", authProviders: { main: { accessToken: \"t\" } }, "
        \o "interceptor: { logBody: true, excludedHeaders: [\"X-A\"] }, commonHeaders: { A: 1 } }"
User == "{\"id\": 1, \"x\": [], \"tags\": [\"a\", \"b\"]}"

Programs ==
  {[Configured(Users \o "print(user(\"a/b\"))", Base) EXCEPT !.response = User],
   [Configured(Users \o "print(user(\"a/b\"))", Base) EXCEPT !.response = "{\"id\": 8, \"tags\": []}"],
   Configured(Users \o "print(user(\"a\"))", "config { baseUrl: \"h\" }"),
   Configured(Users \o "print(user(\"a\"))", "config { timeout: 1 }"),
   Configured(Users \o "print(user(\"a\"))", "var a: Int = 1"),
   Configured(Users \o "print(user(\"a\"))", "config {"),
   Configured(Users \o "print(user(\"a\"))", "config { baseUrl: \"http://h\" }"),
   [Configured("print(1)", "config { packageName: \"p.q\" }") EXCEPT !.command = "kotlin"],
   [Configured("print(1)", "config { packageName: \"p.#q\" }") EXCEPT !.command = "kotlin"],
   [Alone("print(1)") EXCEPT !.command = "check"],
   [Alone("assert(1 == 1) print(1)") EXCEPT !.command = "test"],
   [Alone("assert(1 == 2, \"no\")") EXCEPT !.command = "test"],
   [Alone("print(1)") EXCEPT !.command = "test"],
   Alone("assert(1 == 1)"), Alone("print(leaf(1))"), Alone("// nothing"),
   Alone("// a comment\n\tprint(\"q\\\"#\" ) // the end"),
   Alone("var a: Int = f() var b: Int = 1 fun f(): Int { re b } print(a)"),
   Alone("@Async fun l(x: Int) { print(7 + x) } @AsyncAfter fun m(x: Int): Int { l(x) re x } print(m(1))"),
   Alone("@Async fun l(x: Int) { print(7 + x) } l(1) print(\"still #x\")"),
   Alone("@Async fun l(x: Int) { print(7 + x) } fun k() { l(1) print(\"still\") } k()"),
   Alone("var j: Json = { a: [1, 2.50, null], b: { c: true } } var d: Double = 3 print(\"#j #d\")"),
   Alone("fun f(x: Int): Int { if (x < 2) { re 1 } else if (x < 3) { re 2 } else { re f(x - 1) * 2 } } print(f(3))"),
   Alone("var u: Long = 7 fun f(x: Long): Long { re -x } print(f(u) - 1) print(u + 1)")}

\* What a host invokes.
Libraries ==
  {Hosted("fun f(x: Int): Int { re f(x + 0) }"),
   Hosted("@Async fun l(x: Int) { print(7 + x) } @AsyncAfter fun m(x: Int): Int { l(x) re x }"),
   Hosted("fun n(): Int { re " \o Request("http://h/initial") \o " } var a: Int = n() "
          \o "var b: Int = 4 / a fun f(x: Int): Int { re a * x + b }"),
   Hosted("var a: Int = f() var b: Int = 1 fun f(): Int { re b }"),
   [Hosted("fun n(): Int { re " \o Request("/p") \o " } fun t(): List<Int> { re " \o Request("/q") \o " }")
      EXCEPT !.overrides = JsonObject(<<JsonEntry("baseUrl", JsonString("https://h"))>>)],
   [Hosted("fun n(): Int { re 1 }")
      EXCEPT !.overrides = JsonObject(<<JsonEntry("timeout", JsonNumber("1"))>>)]}

-----------------------------------------------------------------------------
MCSources == Expressions \cup Functions \cup ImportGraphs \cup Programs \cup Libraries
MCProjects == {ProjectOf(s) : s \in ImportGraphs}
MCArguments == {IntValue(1), IntValue(4), BoolValue("true"), BoolValue("false")}
=============================================================================
