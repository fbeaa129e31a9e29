SPECIFICATION Spec
CONSTANTS
  Cells = {1, 2}
  Scratch = 0
  Tensors = {"a", "b", "v"}
  Area <- MCArea
  MaxStage = 2
  Sizes = {1, 2}
  MaxNode = 3
  None = None
INVARIANT GpuWorkDoneBeforeCpu
