CONSTANTS
  r1 = r1
  r2 = r2
  NER = NER
  LLM = LLM
  Request <- MCRequest
  Original <- Text
  Body <- MCBody
  NERReply <- MCNERReply
  LLMReply <- MCLLMReply
  Classifiers <- MCNEROnly
  MaxId = 4

SPECIFICATION Spec

PROPERTIES
  ScopeAsSpecified
