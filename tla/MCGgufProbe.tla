---------------------------- MODULE MCGgufProbe ----------------------------
(* Files of every kind the reader tells apart, for model checking. *)
EXTENDS GgufProbe, SequencesExt

Gguf == INSTANCE GgufFormat

Good(entries, tensors) == Gguf!Header(Magic, 3, entries, tensors)
One(entry) == Good(<<entry>>, <<>>)
Tensor(dims, type) == Good(<<>>, <<Gguf!Tensor(dims, type)>>)

Mixed == Good(<<Gguf!Word(5), Gguf!Texts(<<3, 0, 1, 2, 6>>), Gguf!Numbers(3, 2, 7),
                Gguf!Scalar(7, 1)>>,
              <<Gguf!Tensor(<<256, 3>>, 10), Gguf!Tensor(<<>>, 0)>>)

(* Nothing in it, and arrays that are empty or shorter than the sample.     *)
Nothing == Gguf!File(Good(<<>>, <<>>), 0)
Short == Gguf!File(Good(<<Gguf!Texts(<<>>), Gguf!Numbers(10, 8, 0), Gguf!Numbers(0, 1, 3)>>, <<>>), 200)

(* Another kind and another version of file; arrays of arrays and of an     *)
(* unknown type, and a value of one; five dimensions, a row that is no      *)
(* multiple of the block, and an unknown ggml type; strings, one of them    *)
(* only skipped, of a length no file has, and a count no file has; a header *)
(* longer than MAX_READ.                                                    *)
Implausible(h) == Front(Front(h)) \o <<[h[Len(h) - 1] EXCEPT !.n = MaxSafe + 1], Last(h)>>

(* The first with tensor data after its header, and truncated. *)
SomeFiles == {
  Gguf!File(Mixed, 60), Gguf!File(Mixed, -1), Gguf!File(Mixed, -100),
  Nothing, Short,
  Gguf!File(Gguf!Header(2, 3, <<>>, <<>>), 40),
  Gguf!File(Gguf!Header(Magic, 1, <<>>, <<>>), 40),
  Gguf!File(One(Gguf!Numbers(9, 16, 2)), 40),
  Gguf!File(One(Gguf!Numbers(77, 4, 1)), 40),
  Gguf!File(One(Gguf!Scalar(77, 4)), 40),
  Gguf!File(Tensor(<<32, 2, 2, 2, 2>>, 0), 40),
  Gguf!File(Tensor(<<100, 4>>, 10), 40),
  Gguf!File(Tensor(<<32>>, 99), 40),
  Gguf!File(Implausible(One(Gguf!Word(4))), 40),
  Gguf!File(Implausible(One(Gguf!Texts(<<1, 1, 1, 1, 4>>))), 40),
  Gguf!File([Good(<<>>, <<>>) EXCEPT ![3].n = MaxSafe + 1], 40),
  Gguf!File(One(Gguf!Word(MaxRead)), 40)
}

=============================================================================
