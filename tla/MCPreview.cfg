CONSTANTS
  PromptLimit <- MCPromptLimit
  ResultLimit <- MCResultLimit
  OutputLimit <- MCOutputLimit
  MaxLen <- MCMaxLen
SPECIFICATION Spec
INVARIANT PreviewsBounded
